---------------------------- MODULE Spec2Model ----------------------------
(***************************************************************************)
(* KV-cache placement policies of the KVC-PIM simulator                    *)
(* (simulator/src/pim_codegen/kv_cache_policy.h), and the frontend that   *)
(* drives them: PimTraceKVAware (pim_codegen/static_weight_loader.h) with *)
(* its KVCacheTraceGenerator (kv_cache_trace_generator.h).                 *)
(*                                                                         *)
(* One policy object is alive at a time; a construction (NaiveInit,      *)
(* PartitionInit, ContentionInit, LocalityInit) replaces it by a fresh    *)
(* one, the way the frontend creates its policy.  The function-local      *)
(* static of ContentionAwarePolicy::allocate_kv_cache_bank lives in the   *)
(* process, not in the object, so it survives a construction.             *)
(*                                                                         *)
(* A std::unordered_set<uint64_t> of weight signatures is represented by  *)
(* its size: the policies read it through size() and empty() only.  A     *)
(* std::map is a function whose DOMAIN is the set of keys present.         *)
(***************************************************************************)
EXTENDS Integers, Sequences, FiniteSets, TLC

VARIABLES
  impl,                     \* registered implementation name of the policy object
  m_num_banks,
  m_next_bank,              \* Naive
  m_kv_cache_banks_start,   \* BankPartitioning
  m_kv_cache_banks_count,   \* BankPartitioning
  m_next_kv_bank,           \* BankPartitioning
  m_token_to_bank,          \* std::map<int,int>
  m_static_weight_mapping,  \* std::map<int, unordered_set>: key -> set size
  m_static_weight_count,    \* ContentionAware, SmartLocality
  m_dynamic_alloc_count,    \* ContentionAware, SmartLocality
  m_bank_activity,          \* SmartLocality
  m_total_allocations,
  m_total_conflicts,
  last_allocated_bank,      \* static local of ContentionAware's allocate
  hist,                     \* what the caller has seen of the current object
  phase,                    \* position of the frontend in its lifecycle
  m_organization,           \* m_dram->m_organization.count of channel .. bank
  m_enable_kv_cache,
  m_num_tokens,
  m_kernel_slice_ops_per_token,
  m_kernels,                \* per kernel id, the operations codegen_kernel appends
  static_weight_map,        \* the map connect_memory_system hands to init
  expanded_kernel_ops,      \* the flat kernel buffer of expand_trace
  synth_token,              \* token_id of the loop of PHASE 3
  m_trace,
  m_trace_length,
  m_curr_trace_idx,
  m_kv_cache_head_dim,      \* KVCacheTraceGenerator
  m_kv_cache_hidden_dim,    \* KVCacheTraceGenerator
  m_kv_cache_block_size,    \* KVCacheTraceGenerator
  gen_log,                  \* what the generator and the slice loop did, in order
  sent,                     \* the requests the memory system accepted, in order
  pending,                  \* accepted requests the memory system has not served
  loaded_trace,             \* old_trace of expand_trace: m_trace as init left it
  m_tracker_num_banks,      \* BankConflictTracker::m_num_banks
  m_weight_bank_usage,      \* std::map<int, unordered_set>: bank -> addresses
  m_kv_cache_bank_usage,    \* std::map<int, unordered_set>: bank -> addresses
  m_active_weight_requests, \* std::map<int, vector>: bank -> addresses
  m_active_kv_requests,     \* std::map<int, vector>: bank -> addresses
  m_tracker_total_conflicts,\* BankConflictTracker::m_total_conflicts
  m_weight_kv_conflicts,
  m_kv_weight_conflicts,
  m_conflict_history,
  tracker_call,             \* the last call made on the tracker
  trace_file,               \* the lines of the trace file init_trace reads
  file_pos,                 \* lines std::getline has returned
  kernel_cmd,               \* init_trace
  current_kernel,           \* init_trace: the token lists of the open block
  load_state,               \* position of init_trace
  scan_trace,               \* pre-scan: per trace entry, what codegen_kernel appends
  scan_pos,                 \* pre-scan: entries of old_trace visited
  total_instructions,       \* pre-scan
  buffer_size,              \* pre-scan: expanded_kernel_ops.size()
  scan_state,               \* position of the pre-scan loop
  weight_lines,             \* the lines of the file the static weight loader reads
  weight_pos,               \* lines std::getline has returned to the loader
  weight_loader,            \* which definition of the loader runs
  weight_banks,             \* the loader's num_banks
  weight_result,            \* bank_to_weights / weight_map
  weight_state              \* position of the loader

policyVars == <<impl, m_num_banks, m_next_bank, m_kv_cache_banks_start,
          m_kv_cache_banks_count, m_next_kv_bank, m_token_to_bank,
          m_static_weight_mapping, m_static_weight_count,
          m_dynamic_alloc_count, m_bank_activity, m_total_allocations,
          m_total_conflicts, last_allocated_bank, hist>>

frontVars == <<phase, m_organization, m_enable_kv_cache, m_num_tokens,
               m_kernel_slice_ops_per_token, m_kernels, static_weight_map,
               expanded_kernel_ops, synth_token, m_trace, m_trace_length,
               m_curr_trace_idx, m_kv_cache_head_dim, m_kv_cache_hidden_dim,
               m_kv_cache_block_size, gen_log, sent, pending>>

trackerVars == <<m_tracker_num_banks, m_weight_bank_usage, m_kv_cache_bank_usage,
                 m_active_weight_requests, m_active_kv_requests,
                 m_tracker_total_conflicts, m_weight_kv_conflicts,
                 m_kv_weight_conflicts, m_conflict_history, tracker_call>>

loadVars == <<trace_file, file_pos, kernel_cmd, current_kernel, load_state>>

scanVars == <<scan_trace, scan_pos, total_instructions, buffer_size, scan_state>>

weightVars == <<weight_lines, weight_pos, weight_loader, weight_banks,
                weight_result, weight_state>>

sideVars == <<loaded_trace, trackerVars, loadVars, scanVars, weightVars>>

vars == <<policyVars, frontVars, loaded_trace, trackerVars, loadVars, scanVars,
          weightVars>>

---------------------------------------------------------------------------
(* Bounds of the model *)

MaxBanks == 2
MaxWeight == 2
MaxToken == 1
MaxAllocs == 4
RunBanks == 3
MaxCap == 4
MaxRun == 12

(* Program constants *)

KMax == 3
CursorStart == 3
DefaultBanksCount == 4
DefaultBanksStart == 0
IntMax == 2147483647
LocalityWeightTenths == 3
MaxKvPerBank == 3

Naive == "Naive"
BankPartitioning == "BankPartitioning"
ContentionAware == "ContentionAware"
SmartLocality == "SmartLocality"
Impls == {Naive, BankPartitioning, ContentionAware, SmartLocality}

NoBank == -1
DefaultNumTokens == 512
DefaultSliceOps == 5000
DefaultHeadDim == 128
DefaultHiddenDim == 4096
DefaultBlockSize == 4096
Unused == <<>>

Banks(n) == 0 .. (n - 1)
Tokens == 0 .. MaxToken
BankCounts == 0 .. MaxBanks
MapKeys == 0 .. (MaxBanks - 1)
SetSizes == 0 .. MaxWeight

(* Every std::map<int, unordered_set> over the keys MapKeys: each key is  *)
(* absent or present with a set of 0 .. MaxWeight signatures.              *)
WeightMaps ==
  UNION {[ks -> SetSizes] : ks \in SUBSET MapKeys}

CountParams == (-1 .. (MaxBanks + 1)) \cup {DefaultBanksCount}
StartParams == (-1 .. (MaxBanks + 1)) \cup {DefaultBanksStart}

EmptyTable == [t \in {} |-> NoBank]

RECURSIVE SumOver(_, _)
SumOver(f, S) ==
  IF S = {} THEN 0
  ELSE LET x == CHOOSE y \in S : TRUE IN f[x] + SumOver(f, S \ {x})

SumDyn == SumOver(m_dynamic_alloc_count, DOMAIN m_dynamic_alloc_count)

---------------------------------------------------------------------------
(* Queries *)

get_kv_cache_bank(token_id) ==
  IF token_id \in DOMAIN m_token_to_bank THEN m_token_to_bank[token_id] ELSE -1

(* it != end() && !it->second.empty() *)
MapHasWeights(mapping, bank_id) ==
  bank_id \in DOMAIN mapping /\ mapping[bank_id] > 0

(* A variant that takes the presence of an entry for weights.             *)
NaiveHasBankConflict_AnyEntry(mapping, bank_id) == bank_id \in DOMAIN mapping

NaiveHasBankConflict(mapping, bank_id) == MapHasWeights(mapping, bank_id)

(* A variant that takes the presence of an entry for weights.             *)
PartitionHasBankConflict_AnyEntry(mapping, start, count, bank_id) ==
  bank_id >= start /\ bank_id < start + count /\ bank_id \in DOMAIN mapping

PartitionHasBankConflict(mapping, start, count, bank_id) ==
  IF bank_id >= start /\ bank_id < start + count
    THEN MapHasWeights(mapping, bank_id)
    ELSE FALSE

(* A variant of the test below that is true as soon as any bank has       *)
(* weights.                                                                *)
CountHasBankConflict_AnyBank(n, sw, bank_id) == \E b \in Banks(n) : sw[b] > 0

(* ContentionAware and SmartLocality: m_static_weight_count[bank_id] > 0  *)
CountHasBankConflict(n, sw, bank_id) ==
  IF bank_id < 0 \/ bank_id >= n THEN FALSE ELSE sw[bank_id] > 0

has_bank_conflict(bank_id) ==
  CASE impl = Naive -> NaiveHasBankConflict(m_static_weight_mapping, bank_id)
    [] impl = BankPartitioning ->
         PartitionHasBankConflict(m_static_weight_mapping, m_kv_cache_banks_start,
                                  m_kv_cache_banks_count, bank_id)
    [] OTHER -> CountHasBankConflict(m_num_banks, m_static_weight_count, bank_id)

---------------------------------------------------------------------------
(* set_static_weight_mapping: the values derived from the map *)

StaticWeightCounts(n, mapping) ==
  [b \in Banks(n) |->
     IF b \in DOMAIN mapping THEN mapping[b] ELSE 0]

MaxWeightCount(n, mapping) ==
  LET sw == StaticWeightCounts(n, mapping)
  IN  IF n <= 0 THEN 0
      ELSE CHOOSE m \in {sw[b] : b \in Banks(n)} \cup {0} :
             \A b \in Banks(n) : sw[b] <= m

(* The activity vector is rewritten only when some bank has weights.      *)
BankActivity(n, mapping, old) ==
  LET sw == StaticWeightCounts(n, mapping)
      mx == MaxWeightCount(n, mapping)
  IN  IF mx > 0 THEN [b \in Banks(n) |-> (sw[b] * 100) \div mx] ELSE old

---------------------------------------------------------------------------
(* BankPartitioning::init : clamping of the reserved range *)

(* Variants of the clamping: a start that is left negative, a range that  *)
(* is not cut at the last bank.                                            *)
ClampStart_Unclamped(start_param) == start_param

ReservedRange_Uncut(num_banks, count_param, start_param) ==
  [start |-> IF start_param < 0 THEN 0 ELSE start_param,
   count |-> IF count_param <= 0 THEN 1 ELSE count_param]

ClampCount(count_param) == IF count_param <= 0 THEN 1 ELSE count_param
ClampStart(start_param) == IF start_param < 0 THEN 0 ELSE start_param

ReservedRange(num_banks, count_param, start_param) ==
  LET c == ClampCount(count_param)
      s == ClampStart(start_param)
  IN  IF s + c > num_banks
        THEN IF s < num_banks
               THEN [start |-> s, count |-> num_banks - s]
               ELSE [start |-> 0, count |-> IF num_banks > 4 THEN 4 ELSE 1]
        ELSE [start |-> s, count |-> c]

---------------------------------------------------------------------------
(* ContentionAware::allocate_kv_cache_bank *)

(* Variants of the scan test: one that looks at the cap only, one whose    *)
(* cap is one lower.                                                       *)
ScanAccepts_CapOnly(sw, dyn, b) == dyn[b] < KMax

ScanAccepts_LowerCap(sw, dyn, b) == sw[b] = 0 /\ dyn[b] < KMax - 1

(* The test of the scan loop: a bank without weights that holds fewer     *)
(* than three KV entries.                                                  *)
ScanAccepts(sw, dyn, b) == sw[b] = 0 /\ dyn[b] < KMax

(* while (attempts < m_num_banks * 2): advance the static cursor, stop at *)
(* the first accepted bank.  best = -1 when the loop runs out.            *)
RECURSIVE ScanLoop(_, _, _, _, _)
ScanLoop(n, sw, dyn, last, attempts) ==
  IF attempts < n * 2
    THEN LET nxt == (last + 1) % n
         IN  IF ScanAccepts(sw, dyn, nxt)
               THEN [best |-> nxt, last |-> nxt]
               ELSE ScanLoop(n, sw, dyn, nxt, attempts + 1)
    ELSE [best |-> -1, last |-> last]

(* for bank_id in 0 .. n-1: keep the first bank with strictly fewer       *)
(* allocations than every bank before it.                                  *)
RECURSIVE FewestLoop(_, _, _, _, _)
FewestLoop(n, dyn, bank_id, min_allocations, best) ==
  IF bank_id < n
    THEN IF dyn[bank_id] < min_allocations
           THEN FewestLoop(n, dyn, bank_id + 1, dyn[bank_id], bank_id)
           ELSE FewestLoop(n, dyn, bank_id + 1, min_allocations, best)
    ELSE best

(* A variant of the fallback with "<=" in place of "<": the last of the   *)
(* banks with the fewest allocations.                                      *)
FallbackBank_LastOfTies(n, dyn) ==
  IF n <= 0 THEN 0
  ELSE CHOOSE b \in Banks(n) :
         /\ \A c \in Banks(n) : dyn[b] <= dyn[c]
         /\ \A c \in Banks(n) : dyn[c] = dyn[b] => c <= b

FallbackBank(n, dyn) ==
  LET b == FewestLoop(n, dyn, 0, IntMax, -1)
  IN  IF b = -1 THEN 0 ELSE b

ContentionChoice(n, sw, dyn, last) ==
  LET s == ScanLoop(n, sw, dyn, last, 0)
  IN  [bank |-> IF s.best = -1 THEN FallbackBank(n, dyn) ELSE s.best,
       last |-> s.last]

---------------------------------------------------------------------------
(* SmartLocality::allocate_kv_cache_bank *)

(* A variant of the candidates below that takes every bank.               *)
CandidateBanks_All(n, sw) == Banks(n)

(* Steps 1 and 2: the banks without weights, or all banks if there is none *)
CandidateBanks(n, sw) ==
  LET zero == {b \in Banks(n) : sw[b] = 0}
  IN  IF zero = {} THEN Banks(n) ELSE zero

(* A variant of the score below without the bonus for moderate activity.  *)
Score10_NoBonus(sw, dyn, act, b) == 1000 * sw[b] + 100 * dyn[b]

(* The score, times ten: the locality weight 0.3 is kept in tenths.       *)
Score10(sw, dyn, act, b) ==
  1000 * sw[b] + 100 * dyn[b]
    - (IF act[b] >= 20 /\ act[b] <= 80 THEN 50 * LocalityWeightTenths ELSE 0)

(* Step 3: the candidates in ascending order, strict "score < best_score" *)
RECURSIVE ScoreLoop(_, _, _, _, _, _, _, _)
ScoreLoop(n, cand, sw, dyn, act, b, best_score, best_bank) ==
  IF b < n
    THEN IF b \in cand /\ Score10(sw, dyn, act, b) < best_score
           THEN ScoreLoop(n, cand, sw, dyn, act, b + 1, Score10(sw, dyn, act, b), b)
           ELSE ScoreLoop(n, cand, sw, dyn, act, b + 1, best_score, best_bank)
    ELSE best_bank

LocalityChoice(n, sw, dyn, act) ==
  LET cand == CandidateBanks(n, sw)
      first == CHOOSE b \in cand : \A c \in cand : b <= c
  IN  ScoreLoop(n, cand, sw, dyn, act, 0, IntMax, first)

---------------------------------------------------------------------------
(* The calls *)

(* What the caller has seen of the current policy object:                 *)
(*   op     the last call made on it,                                     *)
(*   token  the token of its last allocate call and                       *)
(*   bank   the bank that call returned (-1 before the first),            *)
(*   fresh  whether every allocate call so far named a token that was not *)
(*          in the table,                                                 *)
(*   mark   the size of the table at the last reset_stats (0 before).     *)
Constructed ==
  [op |-> "init", token |-> -1, bank |-> -1, fresh |-> TRUE, mark |-> 0]

Allocated(token_id, bank_id) ==
  [hist EXCEPT !.op = "alloc", !.token = token_id, !.bank = bank_id,
               !.fresh = hist.fresh /\ token_id \notin DOMAIN m_token_to_bank]

MapUpdated == [hist EXCEPT !.op = "set_map"]

StatsReset ==
  [hist EXCEPT !.op = "reset", !.mark = Cardinality(DOMAIN m_token_to_bank)]

(* A variant of the table write that forgets the earlier tokens.          *)
Record_OnlyLast(token_id, bank_id) == [t \in {token_id} |-> bank_id]

Record(token_id, bank_id) ==
  [t \in (DOMAIN m_token_to_bank) \cup {token_id} |->
     IF t = token_id THEN bank_id ELSE m_token_to_bank[t]]

Zeros(n) == [b \in Banks(n) |-> 0]

NaiveInit(num_banks, mapping) ==
  /\ impl' = Naive
  /\ m_num_banks' = num_banks
  /\ m_next_bank' = 0
  /\ m_static_weight_mapping' = mapping
  /\ m_kv_cache_banks_start' = 0
  /\ m_kv_cache_banks_count' = 0
  /\ m_next_kv_bank' = 0
  /\ m_static_weight_count' = Unused
  /\ m_dynamic_alloc_count' = Unused
  /\ m_bank_activity' = Unused
  /\ m_token_to_bank' = EmptyTable
  /\ m_total_allocations' = 0
  /\ m_total_conflicts' = 0
  /\ hist' = Constructed
  /\ UNCHANGED last_allocated_bank

PartitionInit(num_banks, mapping, count_param, start_param) ==
  LET r == ReservedRange(num_banks, count_param, start_param)
  IN  /\ impl' = BankPartitioning
      /\ m_num_banks' = num_banks
      /\ m_static_weight_mapping' = mapping
      /\ m_kv_cache_banks_count' = r.count
      /\ m_kv_cache_banks_start' = r.start
      /\ m_next_kv_bank' = r.start
      /\ m_next_bank' = 0
      /\ m_static_weight_count' = Unused
      /\ m_dynamic_alloc_count' = Unused
      /\ m_bank_activity' = Unused
      /\ m_token_to_bank' = EmptyTable
      /\ m_total_allocations' = 0
      /\ m_total_conflicts' = 0
      /\ hist' = Constructed
      /\ UNCHANGED last_allocated_bank

ContentionInit(num_banks, mapping) ==
  LET n == IF num_banks <= 0 THEN 1 ELSE num_banks
  IN  /\ impl' = ContentionAware
      /\ m_num_banks' = n
      /\ m_dynamic_alloc_count' = Zeros(n)
      /\ m_static_weight_mapping' = mapping
      /\ m_static_weight_count' = StaticWeightCounts(n, mapping)
      /\ m_bank_activity' = Unused
      /\ m_next_bank' = 0
      /\ m_kv_cache_banks_start' = 0
      /\ m_kv_cache_banks_count' = 0
      /\ m_next_kv_bank' = 0
      /\ m_token_to_bank' = EmptyTable
      /\ m_total_allocations' = 0
      /\ m_total_conflicts' = 0
      /\ hist' = Constructed
      /\ UNCHANGED last_allocated_bank

LocalityInit(num_banks, mapping) ==
  LET n == IF num_banks <= 0 THEN 1 ELSE num_banks
  IN  /\ impl' = SmartLocality
      /\ m_num_banks' = n
      /\ m_dynamic_alloc_count' = Zeros(n)
      /\ m_static_weight_mapping' = mapping
      /\ m_static_weight_count' = StaticWeightCounts(n, mapping)
      /\ m_bank_activity' = BankActivity(n, mapping, Zeros(n))
      /\ m_next_bank' = 0
      /\ m_kv_cache_banks_start' = 0
      /\ m_kv_cache_banks_count' = 0
      /\ m_next_kv_bank' = 0
      /\ m_token_to_bank' = EmptyTable
      /\ m_total_allocations' = 0
      /\ m_total_conflicts' = 0
      /\ hist' = Constructed
      /\ UNCHANGED last_allocated_bank

(* Naive and BankPartitioning store the map and nothing else.             *)
StoreMapping(mapping) ==
  /\ impl \in {Naive, BankPartitioning}
  /\ m_static_weight_mapping' = mapping
  /\ hist' = MapUpdated
  /\ UNCHANGED <<impl, m_num_banks, m_next_bank, m_kv_cache_banks_start,
                 m_kv_cache_banks_count, m_next_kv_bank, m_token_to_bank,
                 m_static_weight_count, m_dynamic_alloc_count, m_bank_activity,
                 m_total_allocations, m_total_conflicts, last_allocated_bank>>

(* A variant of the update below that also clears the per-bank counts of  *)
(* the tokens.                                                             *)
ContentionSetMapping_ClearsCounts(mapping) ==
  /\ impl = ContentionAware
  /\ m_static_weight_mapping' = mapping
  /\ m_static_weight_count' = StaticWeightCounts(m_num_banks, mapping)
  /\ m_dynamic_alloc_count' = Zeros(m_num_banks)
  /\ hist' = MapUpdated
  /\ UNCHANGED <<impl, m_num_banks, m_next_bank, m_kv_cache_banks_start,
                 m_kv_cache_banks_count, m_next_kv_bank, m_token_to_bank,
                 m_bank_activity,
                 m_total_allocations, m_total_conflicts, last_allocated_bank>>

ContentionSetMapping(mapping) ==
  /\ impl = ContentionAware
  /\ m_static_weight_mapping' = mapping
  /\ m_static_weight_count' = StaticWeightCounts(m_num_banks, mapping)
  /\ hist' = MapUpdated
  /\ UNCHANGED <<impl, m_num_banks, m_next_bank, m_kv_cache_banks_start,
                 m_kv_cache_banks_count, m_next_kv_bank, m_token_to_bank,
                 m_dynamic_alloc_count, m_bank_activity,
                 m_total_allocations, m_total_conflicts, last_allocated_bank>>

LocalitySetMapping(mapping) ==
  /\ impl = SmartLocality
  /\ m_static_weight_mapping' = mapping
  /\ m_static_weight_count' = StaticWeightCounts(m_num_banks, mapping)
  /\ m_bank_activity' = BankActivity(m_num_banks, mapping, m_bank_activity)
  /\ hist' = MapUpdated
  /\ UNCHANGED <<impl, m_num_banks, m_next_bank, m_kv_cache_banks_start,
                 m_kv_cache_banks_count, m_next_kv_bank, m_token_to_bank,
                 m_dynamic_alloc_count,
                 m_total_allocations, m_total_conflicts, last_allocated_bank>>

(* A variant of the count below that adds two for a conflict.             *)
Conflicts_ByTwo(hit) == m_total_conflicts + (IF hit THEN 2 ELSE 0)

(* if (has_bank_conflict(bank_id)) m_total_conflicts++ *)
Conflicts(hit) == m_total_conflicts + (IF hit THEN 1 ELSE 0)

NaiveAllocate(token_id) ==
  /\ impl = Naive
  /\ IF m_num_banks <= 0
       THEN /\ hist' = Allocated(token_id, 0)
            /\ UNCHANGED <<m_next_bank, m_token_to_bank, m_total_allocations,
                           m_total_conflicts>>
       ELSE LET bank_id == m_next_bank
            IN  /\ m_next_bank' = (m_next_bank + 1) % m_num_banks
                /\ m_token_to_bank' = Record(token_id, bank_id)
                /\ m_total_allocations' = m_total_allocations + 1
                /\ m_total_conflicts' =
                     Conflicts(NaiveHasBankConflict(m_static_weight_mapping, bank_id))
                /\ hist' = Allocated(token_id, bank_id)
  /\ UNCHANGED <<impl, m_num_banks, m_kv_cache_banks_start, m_kv_cache_banks_count,
                 m_next_kv_bank, m_static_weight_mapping, m_static_weight_count,
                 m_dynamic_alloc_count, m_bank_activity, last_allocated_bank>>

PartitionAllocate(token_id) ==
  /\ impl = BankPartitioning
  /\ IF m_kv_cache_banks_count <= 0
       THEN /\ hist' = Allocated(token_id, 0)
            /\ UNCHANGED <<m_next_kv_bank, m_token_to_bank, m_total_allocations,
                           m_total_conflicts>>
       ELSE LET bank_id == m_next_kv_bank
                offset == ((m_next_kv_bank - m_kv_cache_banks_start) + 1)
                             % m_kv_cache_banks_count
            IN  /\ m_next_kv_bank' = m_kv_cache_banks_start + offset
                /\ m_token_to_bank' = Record(token_id, bank_id)
                /\ m_total_allocations' = m_total_allocations + 1
                /\ m_total_conflicts' =
                     Conflicts(PartitionHasBankConflict(m_static_weight_mapping,
                                 m_kv_cache_banks_start, m_kv_cache_banks_count, bank_id))
                /\ hist' = Allocated(token_id, bank_id)
  /\ UNCHANGED <<impl, m_num_banks, m_next_bank, m_kv_cache_banks_start,
                 m_kv_cache_banks_count, m_static_weight_mapping,
                 m_static_weight_count, m_dynamic_alloc_count, m_bank_activity,
                 last_allocated_bank>>

ContentionAllocate(token_id) ==
  /\ impl = ContentionAware
  /\ LET c == ContentionChoice(m_num_banks, m_static_weight_count,
                               m_dynamic_alloc_count, last_allocated_bank)
         best_bank == c.bank
     IN  /\ last_allocated_bank' = c.last
         /\ m_token_to_bank' = Record(token_id, best_bank)
         /\ m_dynamic_alloc_count' =
              [m_dynamic_alloc_count EXCEPT ![best_bank] = @ + 1]
         /\ m_total_allocations' = m_total_allocations + 1
         /\ m_total_conflicts' =
              Conflicts(CountHasBankConflict(m_num_banks, m_static_weight_count, best_bank))
         /\ hist' = Allocated(token_id, best_bank)
  /\ UNCHANGED <<impl, m_num_banks, m_next_bank, m_kv_cache_banks_start,
                 m_kv_cache_banks_count, m_next_kv_bank, m_static_weight_mapping,
                 m_static_weight_count, m_bank_activity>>

LocalityAllocate(token_id) ==
  /\ impl = SmartLocality
  /\ LET best_bank == LocalityChoice(m_num_banks, m_static_weight_count,
                                     m_dynamic_alloc_count, m_bank_activity)
     IN  /\ m_token_to_bank' = Record(token_id, best_bank)
         /\ m_dynamic_alloc_count' =
              [m_dynamic_alloc_count EXCEPT ![best_bank] = @ + 1]
         /\ m_total_allocations' = m_total_allocations + 1
         /\ m_total_conflicts' =
              Conflicts(CountHasBankConflict(m_num_banks, m_static_weight_count, best_bank))
         /\ hist' = Allocated(token_id, best_bank)
  /\ UNCHANGED <<impl, m_num_banks, m_next_bank, m_kv_cache_banks_start,
                 m_kv_cache_banks_count, m_next_kv_bank, m_static_weight_mapping,
                 m_static_weight_count, m_bank_activity, last_allocated_bank>>

(* Naive and BankPartitioning: the two counters.                           *)
CountersReset ==
  /\ impl \in {Naive, BankPartitioning}
  /\ m_total_allocations' = 0
  /\ m_total_conflicts' = 0
  /\ hist' = StatsReset
  /\ UNCHANGED <<impl, m_num_banks, m_next_bank, m_kv_cache_banks_start,
                 m_kv_cache_banks_count, m_next_kv_bank, m_token_to_bank,
                 m_static_weight_mapping, m_static_weight_count,
                 m_dynamic_alloc_count, m_bank_activity, last_allocated_bank>>

(* A variant of the reset below that leaves the per-bank counts alone.    *)
CountsReset_KeepsCounts ==
  /\ impl \in {ContentionAware, SmartLocality}
  /\ m_total_allocations' = 0
  /\ m_total_conflicts' = 0
  /\ hist' = StatsReset
  /\ UNCHANGED <<impl, m_num_banks, m_next_bank, m_kv_cache_banks_start,
                 m_kv_cache_banks_count, m_next_kv_bank, m_token_to_bank,
                 m_static_weight_mapping, m_static_weight_count,
                 m_dynamic_alloc_count, m_bank_activity, last_allocated_bank>>

(* ContentionAware and SmartLocality: the counters and std::fill(dyn, 0). *)
CountsReset ==
  /\ impl \in {ContentionAware, SmartLocality}
  /\ m_total_allocations' = 0
  /\ m_total_conflicts' = 0
  /\ m_dynamic_alloc_count' = Zeros(m_num_banks)
  /\ hist' = StatsReset
  /\ UNCHANGED <<impl, m_num_banks, m_next_bank, m_kv_cache_banks_start,
                 m_kv_cache_banks_count, m_next_kv_bank, m_token_to_bank,
                 m_static_weight_mapping, m_static_weight_count,
                 m_bank_activity, last_allocated_bank>>

---------------------------------------------------------------------------
(* The process starts without a policy object.  Its configuration (the    *)
(* implementation, the bank count of the DRAM, the reserved-range options *)
(* and the map handed to init) is chosen at the first construction; every *)
(* later construction makes a fresh object from the same configuration    *)
(* and the map current at that time.  Between constructions the caller    *)
(* updates the map, allocates any token and resets the statistics in any  *)
(* order.                                                                  *)

None == "none"

Init ==
  /\ last_allocated_bank = CursorStart
  /\ impl = None
  /\ m_num_banks = 0
  /\ m_next_bank = 0
  /\ m_static_weight_mapping = Unused
  /\ m_kv_cache_banks_start = 0
  /\ m_kv_cache_banks_count = 0
  /\ m_next_kv_bank = 0
  /\ m_static_weight_count = Unused
  /\ m_dynamic_alloc_count = Unused
  /\ m_bank_activity = Unused
  /\ m_token_to_bank = EmptyTable
  /\ m_total_allocations = 0
  /\ m_total_conflicts = 0
  /\ hist = [op |-> "start", token |-> -1, bank |-> -1, fresh |-> TRUE, mark |-> 0]
  /\ phase = "start"
  /\ m_organization = <<>>
  /\ m_enable_kv_cache = FALSE
  /\ m_num_tokens = DefaultNumTokens
  /\ m_kernel_slice_ops_per_token = DefaultSliceOps
  /\ m_kernels = <<>>
  /\ static_weight_map = <<>>
  /\ expanded_kernel_ops = <<>>
  /\ synth_token = 0
  /\ m_trace = <<>>
  /\ m_trace_length = 0
  /\ m_curr_trace_idx = 0
  /\ m_kv_cache_head_dim = DefaultHeadDim
  /\ m_kv_cache_hidden_dim = DefaultHiddenDim
  /\ m_kv_cache_block_size = DefaultBlockSize
  /\ gen_log = <<>>
  /\ sent = <<>>
  /\ pending = 0
  /\ loaded_trace = <<>>
  /\ m_tracker_num_banks = 0
  /\ m_weight_bank_usage = <<>>
  /\ m_kv_cache_bank_usage = <<>>
  /\ m_active_weight_requests = <<>>
  /\ m_active_kv_requests = <<>>
  /\ m_tracker_total_conflicts = 0
  /\ m_weight_kv_conflicts = 0
  /\ m_kv_weight_conflicts = 0
  /\ m_conflict_history = <<>>
  /\ tracker_call = [op |-> "none", bank_id |-> NoBank, addr |-> 0, cycle |-> 0]
  /\ trace_file = <<>>
  /\ file_pos = 0
  /\ kernel_cmd = ""
  /\ current_kernel = <<>>
  /\ load_state = "closed"
  /\ scan_trace = <<>>
  /\ scan_pos = 0
  /\ total_instructions = 0
  /\ buffer_size = 0
  /\ scan_state = "idle"
  /\ weight_lines = <<>>
  /\ weight_pos = 0
  /\ weight_loader = "none"
  /\ weight_banks = 0
  /\ weight_result = <<>>
  /\ weight_state = "idle"

(* Token ids are opaque keys of the table: a call names a token that is   *)
(* already in the table, or the least id not yet in it.                    *)
CallableTokens ==
  LET new == Tokens \ DOMAIN m_token_to_bank
  IN  (DOMAIN m_token_to_bank)
        \cup (IF new = {} THEN {} ELSE {CHOOSE t \in new : \A u \in new : t <= u})

Configured(i) == impl \in {None, i}
ArgBanks == IF impl = None THEN BankCounts ELSE {m_num_banks}
ArgMaps == IF impl = None THEN WeightMaps ELSE {m_static_weight_mapping}
ArgCounts == IF impl = None THEN CountParams ELSE {m_kv_cache_banks_count}
ArgStarts == IF impl = None THEN StartParams ELSE {m_kv_cache_banks_start}

Next ==
  \/ \E n \in ArgBanks, mapping \in ArgMaps :
       Configured(Naive) /\ NaiveInit(n, mapping) /\ UNCHANGED <<frontVars, sideVars>>
  \/ \E n \in ArgBanks, mapping \in ArgMaps, cp \in ArgCounts, sp \in ArgStarts :
       Configured(BankPartitioning) /\ PartitionInit(n, mapping, cp, sp) /\ UNCHANGED <<frontVars, sideVars>>
  \/ \E n \in ArgBanks, mapping \in ArgMaps :
       Configured(ContentionAware) /\ ContentionInit(n, mapping) /\ UNCHANGED <<frontVars, sideVars>>
  \/ \E n \in ArgBanks, mapping \in ArgMaps :
       Configured(SmartLocality) /\ LocalityInit(n, mapping) /\ UNCHANGED <<frontVars, sideVars>>
  \/ \E mapping \in WeightMaps : StoreMapping(mapping) /\ UNCHANGED <<frontVars, sideVars>>
  \/ \E mapping \in WeightMaps : ContentionSetMapping(mapping) /\ UNCHANGED <<frontVars, sideVars>>
  \/ \E mapping \in WeightMaps : LocalitySetMapping(mapping) /\ UNCHANGED <<frontVars, sideVars>>
  \/ \E t \in CallableTokens : m_total_allocations < MaxAllocs /\ NaiveAllocate(t) /\ UNCHANGED <<frontVars, sideVars>>
  \/ \E t \in CallableTokens : m_total_allocations < MaxAllocs /\ PartitionAllocate(t) /\ UNCHANGED <<frontVars, sideVars>>
  \/ \E t \in CallableTokens : m_total_allocations < MaxAllocs /\ ContentionAllocate(t) /\ UNCHANGED <<frontVars, sideVars>>
  \/ \E t \in CallableTokens : m_total_allocations < MaxAllocs /\ LocalityAllocate(t) /\ UNCHANGED <<frontVars, sideVars>>
  \/ CountersReset /\ UNCHANGED <<frontVars, sideVars>>
  \/ CountsReset /\ UNCHANGED <<frontVars, sideVars>>

Spec == Init /\ [][Next]_vars

---------------------------------------------------------------------------
(* Decoding runs: the frontend constructs the policy from one of the      *)
(* configurations below and the trace generator allocates the tokens      *)
(* 0, 1, 2, ... in order, one call per token.  A later run in the same    *)
(* process constructs a fresh policy from the same configuration.  The    *)
(* map of a configuration is the one the policy allocates under: init     *)
(* followed by set_static_weight_mapping of the same map leaves the state *)
(* that init leaves.                                                       *)

(* N = 16, weights on exactly the banks 0 .. 11: as the loader builds it  *)
(* (an entry for every bank, empty for 12 .. 15) and as derived from the  *)
(* kernel writes (entries for the written banks only).                     *)
TwelveOfSixteen ==
  {[b \in 0 .. 15 |-> IF b <= 11 THEN w ELSE 0] : w \in 1 .. MaxWeight}
    \cup {[b \in 0 .. 11 |-> w] : w \in 1 .. MaxWeight}

AllOfFour == {[b \in 0 .. 3 |-> w] : w \in 1 .. MaxWeight}

NoWeights == [b \in {} |-> 0]

RunConfig(i, n, mapping, cp, sp) ==
  [impl |-> i, n |-> n, mapping |-> mapping, cp |-> cp, sp |-> sp]

(* Values of the options kv_cache_banks_count and kv_cache_banks_start    *)
(* around the corners of the clamping for n banks.                         *)
RunCounts(n) == {-1, 0, 1, DefaultBanksCount, n, n + 1}
RunStarts(n) == {-1, DefaultBanksStart, n - 4, n - 2, n - 1, n, n + 1}

RunConfigs ==
  {RunConfig(i, 16, m, 4, 12) : i \in Impls, m \in TwelveOfSixteen}
    \cup {RunConfig(BankPartitioning, 16, m, DefaultBanksCount, sp) :
            m \in TwelveOfSixteen, sp \in {DefaultBanksStart, 14, 16}}
    \cup UNION {{RunConfig(BankPartitioning, n, NoWeights, cp, sp) :
                   cp \in RunCounts(n), sp \in RunStarts(n)} :
                 n \in (1 .. RunBanks) \cup {16}}
    \cup {RunConfig(Naive, n, m, 0, 0) : n \in 1 .. RunBanks, m \in WeightMaps}
    \cup {RunConfig(ContentionAware, 4, m, 0, 0) : m \in AllOfFour}
    \cup {RunConfig(ContentionAware, n, NoWeights, 0, 0) : n \in 1 .. RunBanks}
    \cup {RunConfig(SmartLocality, n, m, 0, 0) : n \in 1 .. RunBanks, m \in WeightMaps}

WeightFree == \A b \in DOMAIN m_static_weight_count : m_static_weight_count[b] = 0

(* num_tokens of the run *)
RunTokens ==
  CASE impl \in {Naive, BankPartitioning} -> IF m_num_banks = 16 THEN 512 ELSE 20
    [] impl = ContentionAware /\ WeightFree -> m_num_banks * MaxCap
    [] impl = ContentionAware /\ m_num_banks = 4 -> 8
    [] OTHER -> 20

FirstConstruction(c) ==
  /\ impl = None
  /\ \/ c.impl = Naive /\ NaiveInit(c.n, c.mapping)
     \/ c.impl = BankPartitioning /\ PartitionInit(c.n, c.mapping, c.cp, c.sp)
     \/ c.impl = ContentionAware /\ ContentionInit(c.n, c.mapping)
     \/ c.impl = SmartLocality /\ LocalityInit(c.n, c.mapping)

NextConstruction ==
  /\ m_total_allocations > 0
  /\ \/ impl = Naive /\ NaiveInit(m_num_banks, m_static_weight_mapping)
     \/ impl = BankPartitioning
          /\ PartitionInit(m_num_banks, m_static_weight_mapping,
                           m_kv_cache_banks_count, m_kv_cache_banks_start)
     \/ impl = ContentionAware /\ ContentionInit(m_num_banks, m_static_weight_mapping)
     \/ impl = SmartLocality /\ LocalityInit(m_num_banks, m_static_weight_mapping)

NextToken ==
  /\ impl # None
  /\ m_total_allocations < RunTokens
  /\ \/ NaiveAllocate(m_total_allocations)
     \/ PartitionAllocate(m_total_allocations)
     \/ ContentionAllocate(m_total_allocations)
     \/ LocalityAllocate(m_total_allocations)

NextRun ==
  \/ \E c \in RunConfigs : FirstConstruction(c) /\ UNCHANGED <<frontVars, sideVars>>
  \/ NextConstruction /\ UNCHANGED <<frontVars, sideVars>>
  \/ NextToken /\ UNCHANGED <<frontVars, sideVars>>

SpecRun == Init /\ [][NextRun]_vars

---------------------------------------------------------------------------
(* The frontend PimTraceKVAware (init, connect_memory_system, expand_trace,*)
(* tick, is_finished) with its KVCacheTraceGenerator, over the policy     *)
(* above.  A trace operation is a record of its opcode and its address    *)
(* vector.  The levels of the DRAM are channel, rank, bankgroup, bank,    *)
(* row, column; m_organization holds the counts of the first four.  The   *)
(* code generator and the memory system are outside the repository: the   *)
(* operations of each kernel are an input, and the memory system accepts  *)
(* or refuses a request as it likes and serves the accepted ones later.   *)

MaxTokens == 3
MaxSlice == 4
MaxPending == 2

RowBytes == 8192
FloatBytes == 4
SafetyLimit == 5000000
SyntheticSignatures == 100
AddrSlots == 4

Levels == <<"channel", "rank", "bankgroup", "bank", "row", "column">>

m_levels(name) == (CHOOSE i \in 1 .. Len(Levels) : Levels[i] = name) - 1

Op(o, a) == [op |-> o, addr_vec |-> a]

(* get_level_size("bank") * get_level_size("bankgroup") *                 *)
(* get_level_size("channel")                                               *)
TotalBanks(org) ==
  org[m_levels("bank") + 1] * org[m_levels("bankgroup") + 1]
    * org[m_levels("channel") + 1]

(* for (j = bank_level; j >= 0; j--) of bank_id_to_addr_vec *)
RECURSIVE DecomposeLoop(_, _, _, _)
DecomposeLoop(org, j, bank_id, addr_vec) ==
  IF j < 0 THEN addr_vec
  ELSE DecomposeLoop(org, j - 1, bank_id \div org[j + 1],
                     [addr_vec EXCEPT ![j + 1] = bank_id % org[j + 1]])

bank_id_to_addr_vec(org, num_banks, global_bank_id) ==
  IF global_bank_id < 0 \/ global_bank_id >= num_banks
    THEN <<>>
    ELSE DecomposeLoop(org, m_levels("bank"), global_bank_id,
                       [i \in 1 .. Len(Levels) |-> 0])

(* A variant of the row count below that drops a last row that is not    *)
(* full.                                                                   *)
RowsOf_Floor(size) == size \div RowBytes

(* (size + 8192 - 1) / 8192 *)
RowsOf(size) == (size + RowBytes - 1) \div RowBytes

(* What the generator and the slice loop did at step `step`: a read of    *)
(* the block of `token`, the call of allocate_kv_cache_bank, a write of   *)
(* the new token, or the kernel operation at index `token` of the buffer. *)
Event(e, step, token, o) ==
  [ev |-> e, step |-> step, token |-> token, op |-> o.op, addr_vec |-> o.addr_vec]

RowEvents(e, step, token, base, num_rows) ==
  [r \in 1 .. num_rows |->
     Event(e, step, token,
           Op(e, [base EXCEPT ![m_levels("row") + 1] = r - 1,
                              ![m_levels("column") + 1] = 0]))]

(* generate_kv_cache_read for the tokens k .. step - 1 *)
RECURSIVE generate_kv_cache_read(_, _)
generate_kv_cache_read(step, k) ==
  IF k >= step THEN <<>>
  ELSE LET bank_id == get_kv_cache_bank(k)
           base == bank_id_to_addr_vec(m_organization, m_num_banks, bank_id)
           reads == IF bank_id < 0 \/ base = <<>>
                      THEN <<>>
                      ELSE RowEvents("read", step, k, base, RowsOf(m_kv_cache_block_size))
       IN  reads \o generate_kv_cache_read(step, k + 1)

(* generate_kv_cache_write once allocate_kv_cache_bank has returned bank_id *)
generate_kv_cache_write(step, bank_id) ==
  LET kv_data_size == m_kv_cache_head_dim * m_kv_cache_hidden_dim * FloatBytes * 2
      base == bank_id_to_addr_vec(m_organization, m_num_banks, bank_id)
  IN  <<Event("allocate", step, step, Op("", <<>>))>>
        \o (IF bank_id < 0 \/ base = <<>>
              THEN <<>>
              ELSE RowEvents("write", step, step, base, RowsOf(kv_data_size)))

(* A variant of the step that writes the new token before it reads.      *)
generate_inference_step_WriteFirst(step, bank_id) ==
  generate_kv_cache_write(step, bank_id) \o generate_kv_cache_read(step, 0)

generate_inference_step(step, bank_id) ==
  generate_kv_cache_read(step, 0) \o generate_kv_cache_write(step, bank_id)

(* static_cast<size_t> of a negative int exceeds the size of any vector.  *)
kernel_slice_size ==
  IF m_kernel_slice_ops_per_token < 0
       \/ m_kernel_slice_ops_per_token > Len(expanded_kernel_ops)
    THEN Len(expanded_kernel_ops)
    ELSE m_kernel_slice_ops_per_token

(* A variant of the slice that always starts at the head of the buffer.   *)
KernelSlice_FromHead(step) ==
  IF expanded_kernel_ops = <<>>
    THEN <<>>
    ELSE [i \in 1 .. kernel_slice_size |->
            LET idx == (i - 1) % Len(expanded_kernel_ops)
            IN  Event("kernel", step, idx, expanded_kernel_ops[idx + 1])]

KernelSlice(step) ==
  IF expanded_kernel_ops = <<>>
    THEN <<>>
    ELSE LET start == (step * kernel_slice_size) % Len(expanded_kernel_ops)
         IN  [i \in 1 .. kernel_slice_size |->
                LET idx == (start + (i - 1)) % Len(expanded_kernel_ops)
                IN  Event("kernel", step, idx, expanded_kernel_ops[idx + 1])]

(* The operations m_trace.push_back receives for a run of events.  The   *)
(* address components stay below 2^31, where static_cast<int> keeps them. *)
Pushed(events) ==
  LET ops == SelectSeq(events, LAMBDA e : e.ev # "allocate")
  IN  [i \in DOMAIN ops |-> Op(ops[i].op, ops[i].addr_vec)]

(* PHASE 1: the operations of the kernels of the loaded trace, in order,  *)
(* up to the safety limit.                                                 *)
RECURSIVE ExpandKernels(_, _, _)
ExpandKernels(old_trace, i, acc) ==
  IF i > Len(old_trace) THEN acc
  ELSE IF old_trace[i].op # "kernel" THEN ExpandKernels(old_trace, i + 1, acc)
  ELSE LET grown == acc \o m_kernels[old_trace[i].addr_vec[1] + 1]
       IN  IF Len(grown) > SafetyLimit THEN grown
           ELSE ExpandKernels(old_trace, i + 1, grown)

(* PHASE 2: the bank of a kernel operation is addr_vec[3]; the writes to  *)
(* a bank in range are its weights, one signature each.                    *)
HasBank(o, num_banks) ==
  /\ Len(o.addr_vec) >= AddrSlots
  /\ o.addr_vec[AddrSlots] >= 0
  /\ o.addr_vec[AddrSlots] < num_banks

WritesTo(buffer, num_banks, b) ==
  Cardinality({i \in DOMAIN buffer :
                 HasBank(buffer[i], num_banks) /\ buffer[i].addr_vec[AddrSlots] = b
                   /\ buffer[i].op = "write"})

LiveWeightMap(buffer, num_banks) ==
  LET written == {b \in Banks(num_banks) : WritesTo(buffer, num_banks, b) > 0}
      live == [b \in written |-> WritesTo(buffer, num_banks, b)]
  IN  IF written # {} THEN live
      ELSE [b \in {c \in Banks(num_banks) :
                     \E i \in DOMAIN buffer :
                       HasBank(buffer[i], num_banks)
                         /\ buffer[i].addr_vec[AddrSlots] = c
                         /\ buffer[i].op = "write"} |-> SyntheticSignatures]

FinalWeightMap(file_map, buffer, num_banks) == LiveWeightMap(buffer, num_banks)

(* BankConflictTracker(num_banks): the four maps empty, the counters 0    *)
BankConflictTracker(num_banks) ==
  /\ m_tracker_num_banks' = num_banks
  /\ m_weight_bank_usage' = <<>>
  /\ m_kv_cache_bank_usage' = <<>>
  /\ m_active_weight_requests' = <<>>
  /\ m_active_kv_requests' = <<>>
  /\ m_tracker_total_conflicts' = 0
  /\ m_weight_kv_conflicts' = 0
  /\ m_kv_weight_conflicts' = 0
  /\ m_conflict_history' = <<>>
  /\ tracker_call' = [op |-> "construct", bank_id |-> NoBank, addr |-> 0, cycle |-> 0]

(* Inputs of a run.  A program is a trace file: its lines and, for its    *)
(* kernels, the operations the code generator produces.                    *)
Spots == {<<g, b>> : g \in 0 .. 1, b \in 0 .. 1}
At(s) == <<0, 0, s[1], s[2], 0, 0>>
KernelLine(k) == Op("kernel", <<k>>)

Programs ==
  {[trace |-> <<>>, kernels |-> <<>>],
   [trace |-> <<Op("read", At(<<0, 0>>))>>, kernels |-> <<>>],
   [trace |-> <<KernelLine(0)>>,
    kernels |-> << <<Op("read", At(<<0, 1>>)), Op("compute", <<0>>)>> >>]}
    \cup {[trace |-> <<KernelLine(0)>>, kernels |-> << <<Op("write", At(s))>> >>] :
            s \in Spots}
    \cup {[trace |-> <<Op("read", At(s)), KernelLine(0), KernelLine(1)>>,
           kernels |-> << <<Op("read", At(s)), Op("write", At(s))>>,
                          <<Op("compute", At(s))>> >>] : s \in Spots}

TokenCounts == -1 .. MaxTokens
SliceSizes == -1 .. MaxSlice

LoadConfigs ==
  {[enable |-> TRUE, num_tokens |-> t, slice |-> s, program |-> p] :
     t \in TokenCounts, s \in SliceSizes, p \in Programs}
    \cup {[enable |-> FALSE, num_tokens |-> DefaultNumTokens,
           slice |-> DefaultSliceOps, program |-> p] : p \in Programs}

Organizations == {<<1, 1, 1, 2>>, <<1, 1, 2, 2>>, <<2, 1, 1, 2>>}

(* The map extract_weight_banks returns for n banks: an entry for every   *)
(* bank; no map at all without a static_weight_trace_path.                 *)
FileMaps(n) ==
  {NoWeights, [b \in Banks(n) |-> 0],
   [b \in Banks(n) |-> IF b = 0 THEN 1 ELSE 0],
   [b \in Banks(n) |-> IF b = n - 1 THEN 2 ELSE 0]}

KvParams(h, d, b) == [head_dim |-> h, hidden_dim |-> d, block_size |-> b]
DefaultKv == KvParams(DefaultHeadDim, DefaultHiddenDim, DefaultBlockSize)
OneRowKv == KvParams(32, 32, DefaultBlockSize)
TwoRowKv == KvParams(32, 64, 2 * RowBytes)

ConnectConfig(i, org, file_map, kv) ==
  [impl |-> i, org |-> org, file_map |-> file_map, kv |-> kv]

ConnectConfigs ==
  {ConnectConfig(i, <<1, 1, 2, 2>>, NoWeights, OneRowKv) : i \in Impls}
    \cup {ConnectConfig(Naive, org, NoWeights, OneRowKv) : org \in Organizations}
    \cup {ConnectConfig(i, <<1, 1, 2, 2>>, m, OneRowKv) :
            i \in {Naive, ContentionAware}, m \in FileMaps(4)}
    \cup {ConnectConfig(Naive, <<1, 1, 1, 2>>, NoWeights, kv) :
            kv \in {TwoRowKv, DefaultKv}}

(* The construction defaults of the generator make 512 writes a token:   *)
(* they are run for one token without a slice.                             *)
LongRun == m_num_tokens = 1 /\ m_kernel_slice_ops_per_token = 0 /\ Len(m_trace) = 1

(* init(): the options and the lines of the trace file *)
Load(c) ==
  /\ phase = "start"
  /\ m_enable_kv_cache' = c.enable
  /\ m_num_tokens' = c.num_tokens
  /\ m_kernel_slice_ops_per_token' = c.slice
  /\ m_trace' = c.program.trace
  /\ m_kernels' = c.program.kernels
  /\ phase' = "loaded"
  /\ UNCHANGED <<policyVars, m_organization, static_weight_map,
                 expanded_kernel_ops, synth_token, m_trace_length,
                 m_curr_trace_idx, m_kv_cache_head_dim, m_kv_cache_hidden_dim,
                 m_kv_cache_block_size, gen_log, sent, pending>>

(* connect_memory_system up to PHASE 1 of expand_trace *)
ConnectMemorySystem(c) ==
  /\ phase = "loaded"
  /\ c.kv = DefaultKv => LongRun
  /\ m_organization' = c.org
  /\ IF m_enable_kv_cache
       THEN /\ FirstConstruction(RunConfig(c.impl, TotalBanks(c.org), c.file_map,
                                           DefaultBanksCount, DefaultBanksStart))
            /\ static_weight_map' = c.file_map
            /\ m_kv_cache_head_dim' = c.kv.head_dim
            /\ m_kv_cache_hidden_dim' = c.kv.hidden_dim
            /\ m_kv_cache_block_size' = c.kv.block_size
            /\ BankConflictTracker(TotalBanks(c.org))
       ELSE UNCHANGED <<policyVars, static_weight_map, m_kv_cache_head_dim,
                        m_kv_cache_hidden_dim, m_kv_cache_block_size, trackerVars>>
  /\ loaded_trace' = m_trace
  /\ expanded_kernel_ops' = ExpandKernels(m_trace, 1, <<>>)
  /\ m_trace' = <<>>
  /\ phase' = "phase2"
  /\ UNCHANGED <<m_enable_kv_cache, m_num_tokens, m_kernel_slice_ops_per_token,
                 m_kernels, synth_token, m_trace_length, m_curr_trace_idx,
                 gen_log, sent, pending>>

(* PHASE 2 of expand_trace *)
BuildWeightMap ==
  /\ phase = "phase2"
  /\ m_enable_kv_cache
  /\ LET final == FinalWeightMap(static_weight_map, expanded_kernel_ops, m_num_banks)
     IN  \/ StoreMapping(final)
         \/ ContentionSetMapping(final)
         \/ LocalitySetMapping(final)
  /\ phase' = "phase3"
  /\ UNCHANGED <<m_organization, m_enable_kv_cache, m_num_tokens,
                 m_kernel_slice_ops_per_token, m_kernels, static_weight_map,
                 expanded_kernel_ops, synth_token, m_trace, m_trace_length,
                 m_curr_trace_idx, m_kv_cache_head_dim, m_kv_cache_hidden_dim,
                 m_kv_cache_block_size, gen_log, sent, pending>>

(* PHASE 3, one turn of the loop over the tokens *)
SynthesizeToken ==
  /\ phase = "phase3"
  /\ synth_token < m_num_tokens
  /\ \/ NaiveAllocate(synth_token)
     \/ PartitionAllocate(synth_token)
     \/ ContentionAllocate(synth_token)
     \/ LocalityAllocate(synth_token)
  /\ LET events == generate_inference_step(synth_token, hist'.bank)
                     \o KernelSlice(synth_token)
     IN  /\ gen_log' = gen_log \o events
         /\ m_trace' = m_trace \o Pushed(events)
  /\ synth_token' = synth_token + 1
  /\ UNCHANGED <<phase, m_organization, m_enable_kv_cache, m_num_tokens,
                 m_kernel_slice_ops_per_token, m_kernels, static_weight_map,
                 expanded_kernel_ops, m_trace_length, m_curr_trace_idx,
                 m_kv_cache_head_dim, m_kv_cache_hidden_dim,
                 m_kv_cache_block_size, sent, pending>>

(* PHASE 3, after the loop *)
TraceReady ==
  /\ phase = "phase3"
  /\ synth_token >= m_num_tokens
  /\ m_trace_length' = Len(m_trace)
  /\ phase' = "stream"
  /\ UNCHANGED <<policyVars, m_organization, m_enable_kv_cache, m_num_tokens,
                 m_kernel_slice_ops_per_token, m_kernels, static_weight_map,
                 expanded_kernel_ops, synth_token, m_trace, m_curr_trace_idx,
                 m_kv_cache_head_dim, m_kv_cache_hidden_dim,
                 m_kv_cache_block_size, gen_log, sent, pending>>

(* PHASE 2 skipped and the fallback of PHASE 3, without a KV cache *)
CopyKernelOps ==
  /\ phase = "phase2"
  /\ ~m_enable_kv_cache
  /\ m_trace' = expanded_kernel_ops
  /\ m_trace_length' = Len(expanded_kernel_ops)
  /\ phase' = "stream"
  /\ UNCHANGED <<policyVars, m_organization, m_enable_kv_cache, m_num_tokens,
                 m_kernel_slice_ops_per_token, m_kernels, static_weight_map,
                 expanded_kernel_ops, synth_token, m_curr_trace_idx,
                 m_kv_cache_head_dim, m_kv_cache_hidden_dim,
                 m_kv_cache_block_size, gen_log, sent, pending>>

(* A variant of tick that moves on whatever send returns.                 *)
Tick_AlwaysAdvances ==
  /\ phase = "stream"
  /\ m_curr_trace_idx < m_trace_length
  /\ \E accepted \in BOOLEAN :
       /\ accepted => pending < MaxPending
       /\ sent' = IF accepted THEN Append(sent, m_trace[m_curr_trace_idx + 1]) ELSE sent
       /\ pending' = IF accepted THEN pending + 1 ELSE pending
       /\ m_curr_trace_idx' = m_curr_trace_idx + 1
  /\ UNCHANGED <<policyVars, phase, m_organization, m_enable_kv_cache,
                 m_num_tokens, m_kernel_slice_ops_per_token, m_kernels,
                 static_weight_map, expanded_kernel_ops, synth_token, m_trace,
                 m_trace_length, m_kv_cache_head_dim, m_kv_cache_hidden_dim,
                 m_kv_cache_block_size, gen_log>>

(* A variant of tick that returns at once from the last operation on.     *)
Tick_StopsBeforeLast ==
  /\ phase = "stream"
  /\ m_curr_trace_idx + 1 < m_trace_length
  /\ \E accepted \in BOOLEAN :
       /\ accepted => pending < MaxPending
       /\ sent' = IF accepted THEN Append(sent, m_trace[m_curr_trace_idx + 1]) ELSE sent
       /\ pending' = IF accepted THEN pending + 1 ELSE pending
       /\ m_curr_trace_idx' = IF accepted THEN m_curr_trace_idx + 1 ELSE m_curr_trace_idx
  /\ UNCHANGED <<policyVars, phase, m_organization, m_enable_kv_cache,
                 m_num_tokens, m_kernel_slice_ops_per_token, m_kernels,
                 static_weight_map, expanded_kernel_ops, synth_token, m_trace,
                 m_trace_length, m_kv_cache_head_dim, m_kv_cache_hidden_dim,
                 m_kv_cache_block_size, gen_log>>

(* tick: past the end it returns at once; otherwise it offers             *)
(* m_trace[m_curr_trace_idx] and moves on when send returns true.          *)
Tick ==
  /\ phase = "stream"
  /\ m_curr_trace_idx < m_trace_length
  /\ \E accepted \in BOOLEAN :
       /\ accepted => pending < MaxPending
       /\ sent' = IF accepted THEN Append(sent, m_trace[m_curr_trace_idx + 1]) ELSE sent
       /\ pending' = IF accepted THEN pending + 1 ELSE pending
       /\ m_curr_trace_idx' = IF accepted THEN m_curr_trace_idx + 1 ELSE m_curr_trace_idx
  /\ UNCHANGED <<policyVars, phase, m_organization, m_enable_kv_cache,
                 m_num_tokens, m_kernel_slice_ops_per_token, m_kernels,
                 static_weight_map, expanded_kernel_ops, synth_token, m_trace,
                 m_trace_length, m_kv_cache_head_dim, m_kv_cache_hidden_dim,
                 m_kv_cache_block_size, gen_log>>

(* The memory system serves an accepted request. *)
Serve ==
  /\ pending > 0
  /\ pending' = pending - 1
  /\ UNCHANGED <<policyVars, phase, m_organization, m_enable_kv_cache,
                 m_num_tokens, m_kernel_slice_ops_per_token, m_kernels,
                 static_weight_map, expanded_kernel_ops, synth_token, m_trace,
                 m_trace_length, m_curr_trace_idx, m_kv_cache_head_dim,
                 m_kv_cache_hidden_dim, m_kv_cache_block_size, gen_log, sent>>

(* m_memory_system->finished() *)
finished == pending = 0

is_finished == m_curr_trace_idx >= m_trace_length /\ finished

(* The earlier variant of the class (its connect_memory_system,           *)
(* expand_trace, tick and is_finished), run without a KV cache: its       *)
(* expand_trace then copies the loaded trace with every kernel line       *)
(* replaced by the operations of the kernel.                               *)
EarlierLimit == 10000000

RECURSIVE PushKernel(_, _)
PushKernel(acc, ops) ==
  IF ops = <<>> THEN acc
  ELSE LET grown == Append(acc, Head(ops))
       IN  IF Len(grown) > EarlierLimit THEN grown ELSE PushKernel(grown, Tail(ops))

RECURSIVE InlineKernels(_, _, _)
InlineKernels(old_trace, i, acc) ==
  IF i > Len(old_trace) THEN acc
  ELSE IF old_trace[i].op # "kernel"
         THEN InlineKernels(old_trace, i + 1, Append(acc, old_trace[i]))
         ELSE InlineKernels(old_trace, i + 1,
                            PushKernel(acc, m_kernels[old_trace[i].addr_vec[1] + 1]))

EarlierExpand(org) ==
  /\ phase = "loaded"
  /\ ~m_enable_kv_cache
  /\ m_organization' = org
  /\ loaded_trace' = m_trace
  /\ m_trace' = InlineKernels(m_trace, 1, <<>>)
  /\ m_trace_length' = Len(m_trace')
  /\ phase' = "earlier_stream"
  /\ UNCHANGED <<policyVars, m_enable_kv_cache, m_num_tokens,
                 m_kernel_slice_ops_per_token, m_kernels, static_weight_map,
                 expanded_kernel_ops, synth_token, m_curr_trace_idx,
                 m_kv_cache_head_dim, m_kv_cache_hidden_dim,
                 m_kv_cache_block_size, gen_log, sent, pending>>

(* What m_trace[m_curr_trace_idx] yields past the end of the vector.      *)
Stray == Op("stray", <<>>)

(* tick of the earlier variant: its guard m_curr_trace_idx >              *)
(* m_trace_length - 1 is computed in size_t, so that it never holds for   *)
(* an empty trace and the read of m_trace is then out of bounds.           *)
EarlierTick ==
  /\ phase = "earlier_stream"
  /\ ~(m_trace_length >= 1 /\ m_curr_trace_idx > m_trace_length - 1)
  /\ m_curr_trace_idx < m_trace_length + MaxPending
  /\ \E accepted \in BOOLEAN :
       LET t == IF m_curr_trace_idx < Len(m_trace)
                  THEN m_trace[m_curr_trace_idx + 1]
                  ELSE Stray
       IN  /\ accepted => pending < MaxPending
           /\ sent' = IF accepted THEN Append(sent, t) ELSE sent
           /\ pending' = IF accepted THEN pending + 1 ELSE pending
           /\ m_curr_trace_idx' =
                IF accepted THEN m_curr_trace_idx + 1 ELSE m_curr_trace_idx
  /\ UNCHANGED <<policyVars, phase, m_organization, m_enable_kv_cache,
                 m_num_tokens, m_kernel_slice_ops_per_token, m_kernels,
                 static_weight_map, expanded_kernel_ops, synth_token, m_trace,
                 m_trace_length, m_kv_cache_head_dim, m_kv_cache_hidden_dim,
                 m_kv_cache_block_size, gen_log>>

is_finished_earlier == finished

NextFront ==
  \/ \E c \in LoadConfigs : Load(c) /\ UNCHANGED sideVars
  \/ \E c \in ConnectConfigs : ConnectMemorySystem(c) /\ UNCHANGED <<loadVars, scanVars, weightVars>>
  \/ BuildWeightMap /\ UNCHANGED sideVars
  \/ SynthesizeToken /\ UNCHANGED sideVars
  \/ TraceReady /\ UNCHANGED sideVars
  \/ CopyKernelOps /\ UNCHANGED sideVars
  \/ Tick /\ UNCHANGED sideVars
  \/ Serve /\ UNCHANGED sideVars
  \/ \E org \in Organizations :
       EarlierExpand(org) /\ UNCHANGED <<trackerVars, loadVars, scanVars, weightVars>>
  \/ EarlierTick /\ UNCHANGED sideVars

SpecFront == Init /\ [][NextFront]_vars

(* The frontend under a back-end that does not refuse for ever and serves *)
(* what it accepted: tick is called again and again, a send that could be *)
(* accepted again and again is accepted in the end, and an accepted        *)
(* request is served in the end.                                           *)
TickAccepted == Tick /\ m_curr_trace_idx' = m_curr_trace_idx + 1

SpecFrontFair ==
  /\ Init /\ [][NextFront]_vars
  /\ SF_vars(TickAccepted /\ UNCHANGED sideVars)
  /\ WF_vars(Serve /\ UNCHANGED sideVars)

---------------------------------------------------------------------------
(* Properties *)

AllocStep(i) ==
  /\ impl = i
  /\ hist'.op = "alloc"
  /\ m_total_allocations' = m_total_allocations + 1

HoldsWeights(b) ==
  b \in DOMAIN m_static_weight_mapping /\ m_static_weight_mapping[b] > 0

FreeBankExists ==
  \E b \in Banks(m_num_banks) :
    m_static_weight_count[b] = 0 /\ m_dynamic_alloc_count[b] < KMax

(* C1: under ContentionAware and SmartLocality, an allocation made while  *)
(* some bank has static_weight_count = 0 and fewer than K_max dynamic     *)
(* allocations goes to a bank with static_weight_count = 0 and does not   *)
(* increment total_conflicts.                                              *)
C1_FreeBankPreferred ==
  [][\A i \in {ContentionAware, SmartLocality} :
       (AllocStep(i) /\ FreeBankExists)
         => /\ m_static_weight_count[hist'.bank] = 0
            /\ m_total_conflicts' = m_total_conflicts]_vars

(* An allocation has just gone to a bank without weights although a bank  *)
(* with weights holds fewer tokens.                                        *)
C1_Witness ==
  /\ impl \in {ContentionAware, SmartLocality}
  /\ hist.op = "alloc"
  /\ m_static_weight_count[hist.bank] = 0
  /\ m_dynamic_alloc_count[hist.bank] <= KMax
  /\ m_total_conflicts = 0
  /\ \E b \in Banks(m_num_banks) :
       /\ m_static_weight_count[b] > 0
       /\ m_dynamic_alloc_count[b] < m_dynamic_alloc_count[hist.bank] - 1

TwelveOfSixteenRun(i) ==
  /\ impl = i
  /\ m_num_banks = 16
  /\ \A b \in 0 .. 15 : HoldsWeights(b) <=> b <= 11

(* C2 as stated: ContentionAware, N = 16, weights on the banks 0 .. 11:   *)
(* all 20 tokens of the run are on the banks 12 .. 15 and total_conflicts *)
(* is 0.                                                                   *)
C2_AllTwentyOnFreeBanks ==
  TwelveOfSixteenRun(ContentionAware)
    => /\ \A t \in DOMAIN m_token_to_bank : m_token_to_bank[t] \in 12 .. 15
       /\ m_total_conflicts = 0

(* C2, amended: ContentionAware, N = 16, weights on the banks 0 .. 11:    *)
(* the tokens 0 .. 11 are on the banks 12 .. 15 without conflict; the     *)
(* tokens 12 .. 19 are on the banks 0 .. 7, token 12 + j on bank j, each  *)
(* one a conflict, so that total_conflicts is 8 after 20 tokens.           *)
C2_TwelveFreeThenWeightBanks ==
  TwelveOfSixteenRun(ContentionAware)
    => /\ \A t \in DOMAIN m_token_to_bank :
            IF t < 12 THEN m_token_to_bank[t] \in 12 .. 15
                      ELSE m_token_to_bank[t] = t - 12
       /\ m_total_conflicts =
            (IF m_total_allocations <= 12 THEN 0 ELSE m_total_allocations - 12)

C2_Witness ==
  /\ TwelveOfSixteenRun(ContentionAware)
  /\ m_total_allocations = 20
  /\ DOMAIN m_token_to_bank = 0 .. 19
  /\ m_token_to_bank[19] = 7
  /\ m_total_conflicts = 8

ReservedBanks ==
  m_kv_cache_banks_start .. (m_kv_cache_banks_start + m_kv_cache_banks_count - 1)

(* C3: under BankPartitioning an allocation leaves total_conflicts as it  *)
(* is (0 if it was 0) when the map has no non-empty entry for a bank of   *)
(* the reserved range, and adds exactly one when it lands on a reserved   *)
(* bank whose weight set is non-empty.                                     *)
C3_ConflictsOfReservedRange ==
  [][AllocStep(BankPartitioning)
       => /\ (\A b \in ReservedBanks : ~HoldsWeights(b))
               => m_total_conflicts' = m_total_conflicts
          /\ (hist'.bank \in ReservedBanks /\ HoldsWeights(hist'.bank))
               => m_total_conflicts' = m_total_conflicts + 1]_vars

(* Both cases have happened: the last allocation landed on a reserved     *)
(* bank whose entry is empty, after one that was counted as a conflict.   *)
C3_Witness ==
  /\ impl = BankPartitioning
  /\ hist.op = "alloc"
  /\ hist.bank \in ReservedBanks
  /\ hist.bank \in DOMAIN m_static_weight_mapping
  /\ m_static_weight_mapping[hist.bank] = 0
  /\ m_total_conflicts = 1
  /\ m_total_allocations >= 2

(* C4: under BankPartitioning with N >= 1, whatever the two options, the  *)
(* reserved range has start >= 0, count >= 1 and start + count <= N, and  *)
(* the k-th allocation of a run (k from 0) is on bank                     *)
(* start + (k mod count); with N = 16, start = 12, count = 4 token 4 is   *)
(* on bank 12.                                                             *)
C4_ReservedRangeRoundRobin ==
  (impl = BankPartitioning /\ m_num_banks >= 1)
    => /\ m_kv_cache_banks_start >= 0
       /\ m_kv_cache_banks_count >= 1
       /\ m_kv_cache_banks_start + m_kv_cache_banks_count <= m_num_banks
       /\ \A k \in DOMAIN m_token_to_bank :
            /\ m_token_to_bank[k] =
                 m_kv_cache_banks_start + (k % m_kv_cache_banks_count)
            /\ m_token_to_bank[k] \in ReservedBanks
       /\ (/\ m_num_banks = 16
           /\ m_kv_cache_banks_start = 12
           /\ m_kv_cache_banks_count = 4
           /\ 4 \in DOMAIN m_token_to_bank) => m_token_to_bank[4] = 12

C4_Witness ==
  /\ impl = BankPartitioning
  /\ m_num_banks = 16
  /\ m_kv_cache_banks_start = 12
  /\ m_kv_cache_banks_count = 4
  /\ m_total_allocations = 512
  /\ get_kv_cache_bank(4) = 12
  /\ get_kv_cache_bank(511) = 15

GetAfter(t) == get_kv_cache_bank(t)'

(* What C5 says of one step: the token just allocated is looked up on the *)
(* bank that was returned; the lookup of every other token is what it was *)
(* (a bank, or -1 for a token not allocated); a new object knows no token.*)
LookupKept ==
  /\ \A t \in Tokens :
       (hist'.op = "alloc" /\ hist'.token = t) => GetAfter(t) = hist'.bank
  /\ hist'.op # "init"
       => \A t \in Tokens :
            \/ hist'.op = "alloc" /\ hist'.token = t
            \/ GetAfter(t) = get_kv_cache_bank(t)
  /\ hist'.op = "init" => \A t \in Tokens : GetAfter(t) = -1

(* C5 as stated: for every policy, once allocate_kv_cache_bank(_, t) has  *)
(* returned b, get_kv_cache_bank(t) is b in every later state, whatever   *)
(* allocations of other tokens, map updates and resets follow; it is -1   *)
(* for a token never allocated.                                            *)
C5_LookupStable == [][LookupKept]_vars

(* C5, amended: the same for every policy constructed with at least one   *)
(* bank (num_banks >= 1).                                                  *)
C5_LookupStableWithBanks == [][m_num_banks' >= 1 => LookupKept]_vars

(* Two tokens on different banks are still looked up there after a       *)
(* reset that followed their allocations.                                  *)
C5_Witness ==
  /\ m_num_banks >= 2
  /\ hist.op = "reset"
  /\ DOMAIN m_token_to_bank = {0, 1}
  /\ get_kv_cache_bank(0) # get_kv_cache_bank(1)
  /\ get_kv_cache_bank(hist.token) = hist.bank
  /\ m_static_weight_mapping # Unused

(* C6: for every policy, every configuration and every N >= 1, every      *)
(* allocated token t has 0 <= get_kv_cache_bank(t) < N.                     *)
C6_BankInRange ==
  (impl # None /\ m_num_banks >= 1)
    => \A t \in DOMAIN m_token_to_bank :
         0 <= get_kv_cache_bank(t) /\ get_kv_cache_bank(t) < m_num_banks

C6_Witness ==
  /\ m_num_banks >= 2
  /\ hist.op = "alloc"
  /\ hist.bank = m_num_banks - 1
  /\ get_kv_cache_bank(hist.token) = m_num_banks - 1

TableSize == Cardinality(DOMAIN m_token_to_bank)

C8_ResetKeepsAllocationState ==
  [][hist'.op = "reset"
       => /\ m_token_to_bank' = m_token_to_bank
          /\ m_dynamic_alloc_count' = m_dynamic_alloc_count
          /\ m_next_bank' = m_next_bank
          /\ m_next_kv_bank' = m_next_kv_bank
          /\ last_allocated_bank' = last_allocated_bank]_vars

(* The bank the two-step rule of C9 names when the scan starts at from.   *)
RuleBank(from) ==
  LET n == m_num_banks
      free == {b \in Banks(n) : m_static_weight_count[b] = 0
                                   /\ m_dynamic_alloc_count[b] < KMax}
  IN  IF free # {}
        THEN CHOOSE b \in free :
               \A c \in free : (b - from) % n <= (c - from) % n
        ELSE CHOOSE b \in Banks(n) :
               \A c \in Banks(n) :
                 \/ m_dynamic_alloc_count[b] < m_dynamic_alloc_count[c]
                 \/ m_dynamic_alloc_count[b] = m_dynamic_alloc_count[c] /\ b <= c

(* C9 as stated: every ContentionAware allocation after the first takes   *)
(* the first bank without weights and below the cap in the cyclic order   *)
(* that starts one past the bank of the previous placement, and else the  *)
(* bank with the fewest allocations, lowest index on ties.                 *)
C9_TwoStepRule ==
  [][(AllocStep(ContentionAware) /\ hist.bank # -1)
       => hist'.bank = RuleBank((hist.bank + 1) % m_num_banks)]_vars

(* C10: a ContentionAware run without static weights has                  *)
(* dynamic_alloc_count = K on every bank after N * K tokens, for the cap  *)
(* K_max = 3 as for every K up to MaxCap; with N = 16 and weights on the  *)
(* banks 0 .. 11 the first 12 tokens are three on each of the banks       *)
(* 12 .. 15, and total_conflicts is 0.                                     *)
C10_CapFilledEvenly ==
  /\ (impl = ContentionAware /\ WeightFree)
       => \A k \in 1 .. MaxCap :
            m_total_allocations = m_num_banks * k
              => \A b \in Banks(m_num_banks) : m_dynamic_alloc_count[b] = k
  /\ (TwelveOfSixteenRun(ContentionAware) /\ m_total_allocations = 12)
       => /\ \A b \in 0 .. 15 :
               m_dynamic_alloc_count[b] = (IF b >= 12 THEN KMax ELSE 0)
          /\ \A t \in DOMAIN m_token_to_bank : m_token_to_bank[t] \in 12 .. 15
          /\ m_total_conflicts = 0

C10_Witness ==
  /\ TwelveOfSixteenRun(ContentionAware)
  /\ m_total_allocations = 12
  /\ \A b \in 12 .. 15 : m_dynamic_alloc_count[b] = KMax
  /\ m_total_conflicts = 0

(* C11: in a Naive run the k-th allocation (k from 0) is on bank k mod N  *)
(* whatever the map holds, and total_conflicts is the number of           *)
(* allocations on a bank with a non-empty weight set; with N = 16 and     *)
(* weights on the banks 0 .. 11, 512 allocations give                     *)
(* total_allocations = 512, total_conflicts = 384, token 0 on bank 0 and  *)
(* token 15 on bank 15.                                                    *)
C11_NaiveRoundRobin ==
  (impl = Naive /\ m_num_banks >= 1)
    => /\ \A k \in DOMAIN m_token_to_bank : m_token_to_bank[k] = k % m_num_banks
       /\ m_total_conflicts =
            Cardinality({k \in DOMAIN m_token_to_bank : HoldsWeights(m_token_to_bank[k])})
       /\ (TwelveOfSixteenRun(Naive) /\ TableSize = 512)
            => /\ m_total_allocations = 512
               /\ m_total_conflicts = 384
               /\ get_kv_cache_bank(0) = 0
               /\ get_kv_cache_bank(15) = 15

C11_Witness ==
  /\ TwelveOfSixteenRun(Naive)
  /\ m_total_allocations = 512
  /\ m_total_conflicts = 384
  /\ get_kv_cache_bank(15) = 15
  /\ get_kv_cache_bank(511) = 15

(* The state of a fresh SmartLocality policy of n banks and the given map *)
(* after the tokens 0 .. k-1 of a run: init, then k calls of               *)
(* allocate_kv_cache_bank.                                                 *)
RECURSIVE LocalityRun(_, _, _)
LocalityRun(n, mapping, k) ==
  IF k = 0
    THEN [table |-> EmptyTable, dyn |-> Zeros(n), conflicts |-> 0]
    ELSE LET r == LocalityRun(n, mapping, k - 1)
             sw == StaticWeightCounts(n, mapping)
             act == BankActivity(n, mapping, Zeros(n))
             b == LocalityChoice(n, sw, r.dyn, act)
         IN  [table |-> [t \in DOMAIN r.table \cup {k - 1} |->
                           IF t = k - 1 THEN b ELSE r.table[t]],
              dyn |-> [r.dyn EXCEPT ![b] = @ + 1],
              conflicts |-> r.conflicts
                              + (IF CountHasBankConflict(n, sw, b) THEN 1 ELSE 0)]

(* C12 as stated: on N = 16 with weights on the banks 0 .. 11 and 12      *)
(* tokens, ContentionAware has the token-to-bank assignment, the per-bank *)
(* dynamic counts and the total_conflicts (0) that SmartLocality has on   *)
(* the same inputs.                                                        *)
C12_ContentionAsLocality ==
  (TwelveOfSixteenRun(ContentionAware) /\ m_total_allocations <= 12)
    => LET r == LocalityRun(m_num_banks, m_static_weight_mapping, m_total_allocations)
       IN  /\ m_token_to_bank = r.table
           /\ m_dynamic_alloc_count = r.dyn
           /\ m_total_conflicts = r.conflicts
           /\ m_total_conflicts = 0

(* MaxRun: the longest run prefix that is compared call by call.          *)
(* The members of a fresh object of the current variant and configuration *)
(* after the tokens 0 .. k-1 of a run, when it is the first object of the *)
(* process (static cursor at its initial value).                           *)
RECURSIVE FirstInstanceRun(_)
FirstInstanceRun(k) ==
  IF k = 0
    THEN [table |-> EmptyTable,
          next |-> IF impl = BankPartitioning THEN m_kv_cache_banks_start ELSE 0,
          dyn |-> Zeros(m_num_banks),
          last |-> CursorStart]
    ELSE LET r == FirstInstanceRun(k - 1)
             n == m_num_banks
             sw == StaticWeightCounts(n, m_static_weight_mapping)
             c == ContentionChoice(n, sw, r.dyn, r.last)
             b == CASE impl = Naive -> r.next
                    [] impl = BankPartitioning -> r.next
                    [] impl = ContentionAware -> c.bank
                    [] OTHER -> LocalityChoice(n, sw, r.dyn,
                                  BankActivity(n, m_static_weight_mapping, Zeros(n)))
         IN  [table |-> [t \in DOMAIN r.table \cup {k - 1} |->
                           IF t = k - 1 THEN b ELSE r.table[t]],
              next |-> CASE impl = Naive -> (r.next + 1) % n
                         [] impl = BankPartitioning ->
                              m_kv_cache_banks_start
                                + (((r.next - m_kv_cache_banks_start) + 1)
                                     % m_kv_cache_banks_count)
                         [] OTHER -> 0,
              dyn |-> IF impl \in {ContentionAware, SmartLocality}
                        THEN [r.dyn EXCEPT ![b] = @ + 1] ELSE r.dyn,
              last |-> IF impl = ContentionAware THEN c.last ELSE r.last]

(* C13 as stated: an object fed the calls of a run returns the banks that *)
(* the first object of the same variant, bank count, configuration and    *)
(* map returned for them, also when it is constructed after that object   *)
(* has allocated in the same process.                                      *)
C13_SameBanksAsFirstInstance ==
  (impl # None /\ m_total_allocations <= MaxRun)
    => m_token_to_bank = FirstInstanceRun(m_total_allocations).table

---------------------------------------------------------------------------
(* Properties of the frontend *)

StepEvents(t, e) == {i \in DOMAIN gen_log : gen_log[i].step = t /\ gen_log[i].ev = e}

KindRank(e) ==
  CASE e = "read" -> 0 [] e = "allocate" -> 1 [] e = "write" -> 2 [] OTHER -> 3

(* a is emitted no later than b: by step, within a step reads, the call   *)
(* of allocate, writes, slice, and reads by ascending token               *)
InOrder(a, b) ==
  \/ a.step < b.step
  \/ /\ a.step = b.step
     /\ \/ KindRank(a.ev) < KindRank(b.ev)
        \/ a.ev = b.ev /\ (a.ev = "read" => a.token <= b.token)

(* C14: in the synthesized stream the operations of step t are the reads  *)
(* of the tokens 0 .. t-1 in ascending order, then the writes of t, then  *)
(* the kernel slice of t, and then the operations of step t+1; the policy *)
(* is asked for the bank of t once, after the reads of step t and before  *)
(* its writes.                                                             *)
C14_EmissionOrder ==
  (m_enable_kv_cache /\ phase \in {"phase3", "stream"})
    => /\ \A i \in 1 .. (Len(gen_log) - 1) : InOrder(gen_log[i], gen_log[i + 1])
       /\ \A t \in 0 .. (synth_token - 1) :
            /\ Cardinality(StepEvents(t, "allocate")) = 1
            /\ {gen_log[i].token : i \in StepEvents(t, "read")} = 0 .. (t - 1)
            /\ StepEvents(t, "write") # {}
            /\ Cardinality(StepEvents(t, "kernel")) = kernel_slice_size
       /\ \A i \in DOMAIN gen_log : gen_log[i].step < synth_token
       /\ m_total_allocations = synth_token
       /\ DOMAIN m_token_to_bank = 0 .. (synth_token - 1)
       /\ m_trace = Pushed(gen_log)

C14_Witness ==
  /\ m_enable_kv_cache
  /\ phase = "stream"
  /\ synth_token = 3
  /\ StepEvents(2, "kernel") # {}
  /\ Cardinality(StepEvents(2, "read")) >= 2
  /\ m_curr_trace_idx = m_trace_length

(* the requests the memory system has accepted are the first              *)
(* m_curr_trace_idx operations of m_trace                                  *)
AcceptedIsPrefix ==
  /\ m_curr_trace_idx <= m_trace_length
  /\ m_trace_length = Len(m_trace)
  /\ sent = SubSeq(m_trace, 1, m_curr_trace_idx)

(* a step of the streaming phase: send returned true, so that the memory  *)
(* system holds one request more, exactly when the cursor moved by one    *)
TickStep ==
  (phase = "stream" /\ phase' = "stream")
    => /\ m_trace' = m_trace
       /\ m_trace_length' = m_trace_length
       /\ \/ /\ sent' = sent
             /\ m_curr_trace_idx' = m_curr_trace_idx
          \/ /\ m_curr_trace_idx < m_trace_length
             /\ sent' = Append(sent, m_trace[m_curr_trace_idx + 1])
             /\ m_curr_trace_idx' = m_curr_trace_idx + 1

(* C15: whatever the memory system accepts and refuses, tick moves the    *)
(* cursor by one exactly when send returned true and otherwise leaves the *)
(* cursor and the trace alone, so that the next tick offers the same      *)
(* operation; the accepted operations are always a prefix of the          *)
(* synthesized trace, in its order.                                        *)
C15_AcceptedPrefixOfTrace ==
  /\ [](phase = "stream" => AcceptedIsPrefix)
  /\ [][TickStep]_vars

C15_Witness ==
  /\ phase = "stream"
  /\ m_curr_trace_idx >= 2
  /\ m_curr_trace_idx < m_trace_length
  /\ sent = SubSeq(m_trace, 1, m_curr_trace_idx)
  /\ pending = MaxPending

(* is_finished of the class that is streaming *)
FrontendFinished ==
  CASE phase = "stream" -> is_finished
    [] phase = "earlier_stream" -> is_finished_earlier
    [] OTHER -> FALSE

(* C16: is_finished is true only when the cursor has reached the end of   *)
(* the synthesized trace and the memory system reports finished; it is    *)
(* never true while an operation of the trace has not been accepted.      *)
C16_FinishedOnlyAtEnd ==
  FrontendFinished
    => /\ m_curr_trace_idx >= m_trace_length
       /\ finished
       /\ Len(sent) >= Len(m_trace)

(* KV(t): the operations of the generator for step t, given the bank the  *)
(* policy holds for t *)
KV(t) == Pushed(generate_inference_step(t, get_kv_cache_bank(t)))

(* s operations of the buffer from offset (t * s) mod L, with wrap-around *)
SliceOf(t, s) ==
  [i \in 1 .. s |->
     expanded_kernel_ops[((t * s + (i - 1)) % Len(expanded_kernel_ops)) + 1]]

RECURSIVE Interleaved(_, _)
Interleaved(t, s) ==
  IF t >= m_num_tokens THEN <<>>
  ELSE KV(t) \o SliceOf(t, s) \o Interleaved(t + 1, s)

Synthesized == m_enable_kv_cache /\ phase = "stream"

(* C17 as stated: with a KV cache, a non-empty kernel buffer of length L  *)
(* and slice size S, the stream is KV(t) followed by exactly S kernel     *)
(* operations, the i-th being buffer[(t*S + i) mod L], for t = 0 .. T-1;  *)
(* with S = 0 it is KV(0), ..., KV(T-1).                                   *)
C17_SliceOfExactlyS ==
  (Synthesized /\ m_kernel_slice_ops_per_token >= 0
     /\ (expanded_kernel_ops # <<>> \/ m_kernel_slice_ops_per_token = 0))
    => m_trace = Interleaved(0, m_kernel_slice_ops_per_token)

(* the slice size expand_trace works with: S cut to the length of the     *)
(* buffer, and the length of the buffer for a negative S                   *)
EffectiveSlice ==
  IF m_kernel_slice_ops_per_token < 0
    THEN Len(expanded_kernel_ops)
    ELSE IF m_kernel_slice_ops_per_token < Len(expanded_kernel_ops)
           THEN m_kernel_slice_ops_per_token
           ELSE Len(expanded_kernel_ops)

(* C17, amended: the slice has min(S, L) operations (L for a negative S), *)
(* the i-th being buffer[(t*min(S, L) + i) mod L]; with S = 0 the stream  *)
(* is KV(0), ..., KV(T-1).                                                 *)
C17_SliceCutToBuffer ==
  (Synthesized /\ (expanded_kernel_ops # <<>> \/ m_kernel_slice_ops_per_token = 0))
    => m_trace = Interleaved(0, EffectiveSlice)

C17_Witness ==
  /\ Synthesized
  /\ Len(expanded_kernel_ops) = 3
  /\ m_kernel_slice_ops_per_token = 2
  /\ m_num_tokens = 3
  /\ m_trace = Interleaved(0, 2)
  /\ m_curr_trace_idx = m_trace_length

(* C18: with num_tokens = 0 and a KV cache, the synthesized stream holds  *)
(* every operation of the kernel expansion of the loaded trace and no KV  *)
(* operation, and the policy has made no allocation.                       *)
C18_ZeroTokensKernelOnly ==
  (Synthesized /\ m_num_tokens = 0)
    => /\ \A i \in DOMAIN expanded_kernel_ops :
            \E j \in DOMAIN m_trace : m_trace[j] = expanded_kernel_ops[i]
       /\ \A i \in DOMAIN gen_log : gen_log[i].ev \notin {"read", "write"}
       /\ m_total_allocations = 0
       /\ m_token_to_bank = EmptyTable

(* The bank index PHASE 2 derives from an address vector: addr_vec[3],    *)
(* when it is in range.                                                    *)
DerivedBank(addr_vec, num_banks) ==
  IF HasBank(Op("write", addr_vec), num_banks) THEN addr_vec[AddrSlots] ELSE NoBank

(* The earlier variant's projection: for (i = 0; i <= bank_level; i++)    *)
(* global_bank_id += addr_vec[i] * multiplier, the multiplier growing by  *)
(* count[i] below the bank level.                                          *)
RECURSIVE GlobalLoop(_, _, _, _, _)
GlobalLoop(org, addr_vec, i, global_bank_id, multiplier) ==
  IF i > m_levels("bank") \/ i >= Len(addr_vec) THEN global_bank_id
  ELSE GlobalLoop(org, addr_vec, i + 1,
                  global_bank_id + addr_vec[i + 1] * multiplier,
                  IF i < m_levels("bank") THEN multiplier * org[i + 1] ELSE multiplier)

GlobalBankId(org, addr_vec, num_banks) ==
  LET g == GlobalLoop(org, addr_vec, 0, 0, 1)
  IN  IF Len(addr_vec) >= 2 /\ m_levels("bank") < Len(addr_vec)
           /\ g >= 0 /\ g < num_banks
        THEN g
        ELSE NoBank

Connected == phase \notin {"start", "loaded"}

(* C19: for every global bank index b in [0, N), N = channels x           *)
(* bankgroups x banks, the bank index the frontend derives from           *)
(* bank_id_to_addr_vec(b) is b again, so that the bank of a KV write and  *)
(* a kernel write to the same physical bank get the same index in the     *)
(* weight map.                                                             *)
C19_BankIndexRoundTrip ==
  Connected
    => LET n == TotalBanks(m_organization)
       IN  /\ \A b \in Banks(n) :
                LET a == bank_id_to_addr_vec(m_organization, n, b)
                IN  /\ DerivedBank(a, n) = b
                    /\ GlobalBankId(m_organization, a, n) = b
           /\ \A i \in DOMAIN gen_log :
                gen_log[i].ev = "write"
                  => DOMAIN LiveWeightMap(<<Op("write", gen_log[i].addr_vec)>>, n)
                       = {get_kv_cache_bank(gen_log[i].token)}

FileMapHasWeights == \E b \in DOMAIN static_weight_map : static_weight_map[b] > 0

(* C20: the map derived from the kernel writes replaces the file-based    *)
(* map only when that is empty: if the layout trace gave weights to at    *)
(* least one bank, the policy holds the file-based map when the KV        *)
(* allocation starts.                                                      *)
C20_FileMapKept ==
  (m_enable_kv_cache /\ phase \in {"phase3", "stream"} /\ FileMapHasWeights)
    => /\ m_static_weight_mapping = static_weight_map
       /\ impl \in {ContentionAware, SmartLocality}
            => m_static_weight_count = StaticWeightCounts(m_num_banks, static_weight_map)

(* The bank the generator and the policy call b is the one at the address *)
(* bank_id_to_addr_vec(b): the global index of the bank an operation      *)
(* addresses, -1 when its vector names no bank.                            *)
PhysicalBank(org, num_banks, addr_vec) ==
  LET same == {b \in Banks(num_banks) :
                 /\ Len(addr_vec) >= AddrSlots
                 /\ \A j \in 1 .. AddrSlots :
                      bank_id_to_addr_vec(org, num_banks, b)[j] = addr_vec[j]}
  IN  IF same = {} THEN NoBank ELSE CHOOSE b \in same : TRUE

KernelWrites == {i \in DOMAIN expanded_kernel_ops : expanded_kernel_ops[i].op = "write"}

WrittenBanks ==
  {PhysicalBank(m_organization, m_num_banks, expanded_kernel_ops[i].addr_vec) :
     i \in KernelWrites} \ {NoBank}

WeightedBanks ==
  {b \in DOMAIN m_static_weight_mapping : m_static_weight_mapping[b] > 0}

(* C21: with a kernel buffer that holds a write to some bank and no       *)
(* file-based map, the map the policy holds when the allocation starts    *)
(* has a bank with a non-empty signature set, and its banks with weights  *)
(* are exactly the banks the kernel writes address.                        *)
C21_WeightedBanksAreWrittenBanks ==
  (m_enable_kv_cache /\ phase \in {"phase3", "stream"}
     /\ static_weight_map = NoWeights /\ WrittenBanks # {})
    => /\ WeightedBanks # {}
       /\ WeightedBanks = WrittenBanks

---------------------------------------------------------------------------
(* BankConflictTracker (memory_system/bank_conflict_tracker.h), called in *)
(* any order.  operator[] of a std::map enters a missing key; find does    *)
(* not.                                                                    *)

MaxTrackerBanks == 2
MaxAddr == 1
MaxCycle == 1
MaxHistory == 1
MaxActive == 1

TrackerBankCounts == {MaxTrackerBanks}
TrackerBankIds == -1 .. MaxTrackerBanks
TrackerAddrs == 0 .. MaxAddr
TrackerCycles == 0 .. MaxCycle

(* m[bank_id] after operator[] *)
EntryOf(m, bank_id, empty) == IF bank_id \in DOMAIN m THEN m[bank_id] ELSE empty

WithEntry(m, bank_id, value) ==
  [b \in DOMAIN m \cup {bank_id} |-> IF b = bank_id THEN value ELSE m[b]]

(* A variant of the test below that looks at every bank.                  *)
InUse_AnyBank(usage, bank_id) == \E b \in DOMAIN usage : usage[b] # {}

(* usage.find(bank_id) != usage.end() && !usage[bank_id].empty() *)
InUse(usage, bank_id) == bank_id \in DOMAIN usage /\ usage[bank_id] # {}

(* A variant of the range test below that lets bank_id = m_num_banks by. *)
BankInRange_Inclusive(bank_id) == ~(bank_id < 0 \/ bank_id > m_tracker_num_banks)

BankInRange(bank_id) == ~(bank_id < 0 \/ bank_id >= m_tracker_num_banks)

has_potential_conflict(bank_id) ==
  IF ~BankInRange(bank_id) THEN FALSE
  ELSE InUse(m_weight_bank_usage, bank_id) /\ InUse(m_kv_cache_bank_usage, bank_id)

ConflictEvent(bank_id, cycle, conflict_type) ==
  [bank_id |-> bank_id, cycle |-> cycle, conflict_type |-> conflict_type]

Call(op, bank_id, addr, cycle) ==
  [op |-> op, bank_id |-> bank_id, addr |-> addr, cycle |-> cycle]

register_weight_operation(bank_id, addr, cycle) ==
  /\ tracker_call' = Call("register_weight_operation", bank_id, addr, cycle)
  /\ IF ~BankInRange(bank_id)
       THEN UNCHANGED <<m_weight_bank_usage, m_active_weight_requests,
                        m_tracker_total_conflicts, m_weight_kv_conflicts,
                        m_conflict_history>>
       ELSE /\ m_weight_bank_usage' =
                 WithEntry(m_weight_bank_usage, bank_id,
                           EntryOf(m_weight_bank_usage, bank_id, {}) \cup {addr})
            /\ m_active_weight_requests' =
                 WithEntry(m_active_weight_requests, bank_id,
                           Append(EntryOf(m_active_weight_requests, bank_id, <<>>), addr))
            /\ IF InUse(m_kv_cache_bank_usage, bank_id)
                 THEN /\ m_tracker_total_conflicts' = m_tracker_total_conflicts + 1
                      /\ m_weight_kv_conflicts' = m_weight_kv_conflicts + 1
                      /\ m_conflict_history' =
                           Append(m_conflict_history,
                                  ConflictEvent(bank_id, cycle, "weight_kv"))
                 ELSE UNCHANGED <<m_tracker_total_conflicts, m_weight_kv_conflicts,
                                  m_conflict_history>>
  /\ UNCHANGED <<m_tracker_num_banks, m_kv_cache_bank_usage, m_active_kv_requests,
                 m_kv_weight_conflicts>>

register_kv_cache_operation(bank_id, addr, cycle) ==
  /\ tracker_call' = Call("register_kv_cache_operation", bank_id, addr, cycle)
  /\ IF ~BankInRange(bank_id)
       THEN UNCHANGED <<m_kv_cache_bank_usage, m_active_kv_requests,
                        m_tracker_total_conflicts, m_kv_weight_conflicts,
                        m_conflict_history>>
       ELSE /\ m_kv_cache_bank_usage' =
                 WithEntry(m_kv_cache_bank_usage, bank_id,
                           EntryOf(m_kv_cache_bank_usage, bank_id, {}) \cup {addr})
            /\ m_active_kv_requests' =
                 WithEntry(m_active_kv_requests, bank_id,
                           Append(EntryOf(m_active_kv_requests, bank_id, <<>>), addr))
            /\ IF InUse(m_weight_bank_usage, bank_id)
                 THEN /\ m_tracker_total_conflicts' = m_tracker_total_conflicts + 1
                      /\ m_kv_weight_conflicts' = m_kv_weight_conflicts + 1
                      /\ m_conflict_history' =
                           Append(m_conflict_history,
                                  ConflictEvent(bank_id, cycle, "kv_weight"))
                 ELSE UNCHANGED <<m_tracker_total_conflicts, m_kv_weight_conflicts,
                                  m_conflict_history>>
  /\ UNCHANGED <<m_tracker_num_banks, m_weight_bank_usage, m_active_weight_requests,
                 m_weight_kv_conflicts>>

(* active.erase(std::remove(active.begin(), active.end(), addr), ...) *)
Erased(active, addr) == SelectSeq(active, LAMBDA a : a # addr)

complete_weight_operation(bank_id, addr) ==
  /\ tracker_call' = Call("complete_weight_operation", bank_id, addr, 0)
  /\ m_active_weight_requests' =
       IF ~BankInRange(bank_id) THEN m_active_weight_requests
       ELSE WithEntry(m_active_weight_requests, bank_id,
                      Erased(EntryOf(m_active_weight_requests, bank_id, <<>>), addr))
  /\ UNCHANGED <<m_tracker_num_banks, m_weight_bank_usage, m_kv_cache_bank_usage,
                 m_active_kv_requests, m_tracker_total_conflicts,
                 m_weight_kv_conflicts, m_kv_weight_conflicts, m_conflict_history>>

complete_kv_cache_operation(bank_id, addr) ==
  /\ tracker_call' = Call("complete_kv_cache_operation", bank_id, addr, 0)
  /\ m_active_kv_requests' =
       IF ~BankInRange(bank_id) THEN m_active_kv_requests
       ELSE WithEntry(m_active_kv_requests, bank_id,
                      Erased(EntryOf(m_active_kv_requests, bank_id, <<>>), addr))
  /\ UNCHANGED <<m_tracker_num_banks, m_weight_bank_usage, m_kv_cache_bank_usage,
                 m_active_weight_requests, m_tracker_total_conflicts,
                 m_weight_kv_conflicts, m_kv_weight_conflicts, m_conflict_history>>

(* A variant of the reset below that empties the usage sets as well.      *)
TrackerResetStats_ClearsUsage ==
  /\ tracker_call' = Call("reset_stats", NoBank, 0, 0)
  /\ m_tracker_total_conflicts' = 0
  /\ m_weight_kv_conflicts' = 0
  /\ m_kv_weight_conflicts' = 0
  /\ m_conflict_history' = <<>>
  /\ m_weight_bank_usage' = <<>>
  /\ m_kv_cache_bank_usage' = <<>>
  /\ UNCHANGED <<m_tracker_num_banks, m_active_weight_requests, m_active_kv_requests>>

(* A variant of the reset below that leaves the history alone.            *)
TrackerResetStats_KeepsHistory ==
  /\ tracker_call' = Call("reset_stats", NoBank, 0, 0)
  /\ m_tracker_total_conflicts' = 0
  /\ m_weight_kv_conflicts' = 0
  /\ m_kv_weight_conflicts' = 0
  /\ UNCHANGED <<m_tracker_num_banks, m_weight_bank_usage, m_kv_cache_bank_usage,
                 m_active_weight_requests, m_active_kv_requests,
                 m_conflict_history>>

(* BankConflictTracker::reset_stats *)
TrackerResetStats ==
  /\ tracker_call' = Call("reset_stats", NoBank, 0, 0)
  /\ m_tracker_total_conflicts' = 0
  /\ m_weight_kv_conflicts' = 0
  /\ m_kv_weight_conflicts' = 0
  /\ m_conflict_history' = <<>>
  /\ UNCHANGED <<m_tracker_num_banks, m_weight_bank_usage, m_kv_cache_bank_usage,
                 m_active_weight_requests, m_active_kv_requests>>

TrackerAlive == tracker_call.op # "none"

(* The bounds of a run: the history and the vectors of active requests.   *)
RoomFor(active, bank_id) ==
  /\ Len(m_conflict_history) < MaxHistory
  /\ BankInRange(bank_id) => Len(EntryOf(active, bank_id, <<>>)) < MaxActive

restVars == <<policyVars, frontVars, loaded_trace, loadVars, scanVars, weightVars>>

NextTracker ==
  \/ \E n \in TrackerBankCounts :
       ~TrackerAlive /\ BankConflictTracker(n) /\ UNCHANGED restVars
  \/ \E b \in TrackerBankIds, a \in TrackerAddrs, c \in TrackerCycles :
       /\ TrackerAlive /\ RoomFor(m_active_weight_requests, b)
       /\ register_weight_operation(b, a, c) /\ UNCHANGED restVars
  \/ \E b \in TrackerBankIds, a \in TrackerAddrs, c \in TrackerCycles :
       /\ TrackerAlive /\ RoomFor(m_active_kv_requests, b)
       /\ register_kv_cache_operation(b, a, c) /\ UNCHANGED restVars
  \/ \E b \in TrackerBankIds, a \in TrackerAddrs :
       TrackerAlive /\ complete_weight_operation(b, a) /\ UNCHANGED restVars
  \/ \E b \in TrackerBankIds, a \in TrackerAddrs :
       TrackerAlive /\ complete_kv_cache_operation(b, a) /\ UNCHANGED restVars
  \/ TrackerAlive /\ TrackerResetStats /\ UNCHANGED restVars

SpecTracker == Init /\ [][NextTracker]_vars

(* The events behind the operations of m_trace, in the order of the trace *)
TraceEvents == SelectSeq(gen_log, LAMBDA e : e.ev # "allocate")

(* The i-th accepted operation is registered: its bank holds an address   *)
(* in the usage map of its class and in no other class because of it.     *)
RegisteredAs(i) ==
  LET b == PhysicalBank(m_organization, m_num_banks, sent[i].addr_vec)
  IN  b # NoBank
        => IF TraceEvents[i].ev \in {"read", "write"}
             THEN InUse(m_kv_cache_bank_usage, b)
             ELSE InUse(m_weight_bank_usage, b)

(* A KV operation was accepted after a kernel operation on the same bank. *)
KvAfterWeight ==
  \E i, j \in DOMAIN sent :
    /\ i < j
    /\ TraceEvents[i].ev = "kernel"
    /\ TraceEvents[j].ev \in {"read", "write"}
    /\ PhysicalBank(m_organization, m_num_banks, sent[i].addr_vec) # NoBank
    /\ PhysicalBank(m_organization, m_num_banks, sent[i].addr_vec)
         = PhysicalBank(m_organization, m_num_banks, sent[j].addr_vec)

(* C22: every operation the frontend has handed to the memory system is   *)
(* registered with the conflict tracker under its class, KV operations of *)
(* the generator as KV and kernel operations as weights, so that a KV     *)
(* operation on a bank that saw a weight operation before has raised the  *)
(* conflict counters of the tracker.                                       *)
C22_EverySentOperationRegistered ==
  (m_enable_kv_cache /\ phase = "stream")
    => /\ \A i \in DOMAIN sent : RegisteredAs(i)
       /\ KvAfterWeight
            => m_tracker_total_conflicts > 0 /\ m_kv_weight_conflicts > 0

(* The loaded trace with every kernel line replaced in place by the       *)
(* operations of its kernel, every other line kept.                        *)
RECURSIVE ExpandedInPlace(_)
ExpandedInPlace(lines) ==
  IF lines = <<>> THEN <<>>
  ELSE (IF Head(lines).op = "kernel"
          THEN m_kernels[Head(lines).addr_vec[1] + 1]
          ELSE <<Head(lines)>>) \o ExpandedInPlace(Tail(lines))

(* C23: without a KV cache the stream handed to the memory system is the  *)
(* loaded trace in its order, every non-kernel operation kept and every   *)
(* kernel operation replaced in place by its expansion: no operation of   *)
(* the loaded trace is dropped and no KV operation is added.               *)
C23_StreamIsLoadedTrace ==
  (~m_enable_kv_cache /\ phase \in {"stream", "earlier_stream"})
    => /\ m_trace = ExpandedInPlace(loaded_trace)
       /\ m_trace_length = Len(m_trace)
       /\ gen_log = <<>>
       /\ \A i \in DOMAIN sent :
            i <= Len(m_trace) => sent[i] = ExpandedInPlace(loaded_trace)[i]

---------------------------------------------------------------------------
(* init_trace: the trace file, read line by line.  A line is the list of  *)
(* its tokens; the second token of an operation line is given by its      *)
(* comma-separated numerals.  A kernel of m_kernels is here the list of    *)
(* token lists of its block, as init_trace stores it.                      *)

MaxLines == 3

OpCodes ==
  [R |-> "read", W |-> "write", C |-> "compute", SR |-> "subarray-read",
   SW |-> "subarray-write", BR |-> "bank-read", BW |-> "bank-write"]

OpTokens == DOMAIN OpCodes
KernelTokens == {"conv2d", "gemm"}

(* static_cast<int>(std::stoll(p)) of each part; the numerals of the      *)
(* files below are small                                                   *)
parse_addr_vec(parts) == [i \in DOMAIN parts |-> parts[i]]

LineKinds ==
  {<<>>,
   <<"R", <<0, 0, 0, 1, 0, 0>> >>,
   <<"conv2d", <<3>> >>,
   <<"in", <<1>> >>,
   <<"end">>,
   <<"#", <<0>> >>}

RECURSIVE FilesOfLength(_)
FilesOfLength(n) ==
  IF n = 0 THEN {<<>>}
  ELSE {Append(f, l) : f \in FilesOfLength(n - 1), l \in LineKinds}

TraceFiles == UNION {FilesOfLength(n) : n \in 0 .. MaxLines}

frontFixed == <<phase, m_organization, m_enable_kv_cache, m_num_tokens,
                m_kernel_slice_ops_per_token, static_weight_map,
                expanded_kernel_ops, synth_token, m_trace_length,
                m_curr_trace_idx, m_kv_cache_head_dim, m_kv_cache_hidden_dim,
                m_kv_cache_block_size, gen_log, sent, pending>>

loadRest == <<policyVars, frontFixed, loaded_trace, trackerVars, scanVars,
             weightVars>>

(* std::ifstream file(trace_path) of the current class and of the earlier *)
(* variant                                                                 *)
OpenTrace(f, state) ==
  /\ load_state = "closed"
  /\ trace_file' = f
  /\ load_state' = state
  /\ UNCHANGED <<file_pos, kernel_cmd, current_kernel, m_trace, m_kernels>>

(* One turn of while (std::getline(file, line)) of init_trace: the chain  *)
(* of tests on tokens[0] has no final else.                                *)
ReadLine ==
  /\ load_state = "reading"
  /\ file_pos < Len(trace_file)
  /\ file_pos' = file_pos + 1
  /\ LET tokens == trace_file[file_pos + 1]
     IN  IF tokens = <<>>
           THEN UNCHANGED <<m_trace, m_kernels, kernel_cmd, current_kernel>>
         ELSE IF tokens[1] \in OpTokens
           THEN /\ m_trace' = Append(m_trace, Op(OpCodes[tokens[1]], parse_addr_vec(tokens[2])))
                /\ UNCHANGED <<m_kernels, kernel_cmd, current_kernel>>
         ELSE IF tokens[1] \in KernelTokens
           THEN /\ kernel_cmd' = tokens[1]
                /\ current_kernel' = <<tokens>>
                /\ UNCHANGED <<m_trace, m_kernels>>
         ELSE IF tokens[1] = "end" /\ kernel_cmd # ""
           THEN /\ m_kernels' = Append(m_kernels, current_kernel)
                /\ kernel_cmd' = ""
                /\ m_trace' = Append(m_trace, Op("kernel", <<Len(m_kernels') - 1>>))
                /\ UNCHANGED current_kernel
         ELSE IF kernel_cmd # ""
           THEN /\ current_kernel' = Append(current_kernel, tokens)
                /\ UNCHANGED <<m_trace, m_kernels, kernel_cmd>>
         ELSE UNCHANGED <<m_trace, m_kernels, kernel_cmd, current_kernel>>
  /\ UNCHANGED <<trace_file, load_state>>

(* One turn of the loop of the earlier variant: a line that is none of    *)
(* the known kinds outside a block throws ConfigurationError; every "end" *)
(* closes a kernel.                                                        *)
EarlierReadLine ==
  /\ load_state = "earlier_reading"
  /\ file_pos < Len(trace_file)
  /\ file_pos' = file_pos + 1
  /\ LET tokens == trace_file[file_pos + 1]
     IN  IF tokens = <<>>
           THEN UNCHANGED <<m_trace, m_kernels, kernel_cmd, current_kernel, load_state>>
         ELSE IF tokens[1] \in OpTokens
           THEN /\ m_trace' = Append(m_trace, Op(OpCodes[tokens[1]], parse_addr_vec(tokens[2])))
                /\ UNCHANGED <<m_kernels, kernel_cmd, current_kernel, load_state>>
         ELSE IF tokens[1] \in KernelTokens
           THEN /\ kernel_cmd' = tokens[1]
                /\ current_kernel' = <<Append(tokens, "")>>
                /\ UNCHANGED <<m_trace, m_kernels, load_state>>
         ELSE IF tokens[1] = "end"
           THEN /\ m_kernels' = Append(m_kernels, current_kernel)
                /\ kernel_cmd' = ""
                /\ m_trace' = Append(m_trace, Op("kernel", <<Len(m_kernels') - 1>>))
                /\ UNCHANGED <<current_kernel, load_state>>
         ELSE IF kernel_cmd # ""
           THEN /\ current_kernel' = Append(current_kernel, tokens)
                /\ UNCHANGED <<m_trace, m_kernels, kernel_cmd, load_state>>
         ELSE /\ load_state' = "failed"
              /\ UNCHANGED <<m_trace, m_kernels, kernel_cmd, current_kernel>>
  /\ UNCHANGED trace_file

(* std::getline fails at the end of the file: file.close() *)
CloseTrace ==
  /\ load_state \in {"reading", "earlier_reading"}
  /\ file_pos = Len(trace_file)
  /\ load_state' = "done"
  /\ UNCHANGED <<trace_file, file_pos, kernel_cmd, current_kernel, m_trace, m_kernels>>

NextLoad ==
  \/ \E f \in TraceFiles : OpenTrace(f, "reading") /\ UNCHANGED loadRest
  \/ \E f \in TraceFiles : OpenTrace(f, "earlier_reading") /\ UNCHANGED loadRest
  \/ ReadLine /\ UNCHANGED loadRest
  \/ EarlierReadLine /\ UNCHANGED loadRest
  \/ CloseTrace /\ UNCHANGED loadRest

SpecLoad == Init /\ [][NextLoad]_vars

(* Line i of the file lies outside every conv2d / gemm ... end block.     *)
RECURSIVE BlockOpenAfter(_, _)
BlockOpenAfter(f, n) ==
  IF n = 0 THEN FALSE
  ELSE IF f[n] # <<>> /\ f[n][1] \in KernelTokens THEN TRUE
  ELSE IF f[n] # <<>> /\ f[n][1] = "end" THEN FALSE
  ELSE BlockOpenAfter(f, n - 1)

UnknownOutsideBlock(f, i) ==
  /\ f[i] # <<>>
  /\ f[i][1] \notin OpTokens \cup KernelTokens \cup {"end"}
  /\ ~BlockOpenAfter(f, i - 1)

(* C24: a trace file with a line outside every block whose first token is *)
(* none of R, W, C, SR, SW, BR, BW, conv2d, gemm, end is rejected: the     *)
(* load fails at that line and does not go on to the lines after it.       *)
C24_UnknownLineIsFatal ==
  load_state \in {"reading", "earlier_reading", "done"}
    => \A i \in 1 .. file_pos : ~UnknownOutsideBlock(trace_file, i)

(* What C25 says of one call of allocate_kv_cache_bank.                   *)
CountedOnce ==
  hist'.op = "alloc"
    => /\ m_total_allocations' = m_total_allocations + 1
       /\ m_total_conflicts' \in {m_total_conflicts, m_total_conflicts + 1}

ZeroWeightBanks == {b \in Banks(m_num_banks) : m_static_weight_count[b] = 0}

ScoredBanks == IF ZeroWeightBanks # {} THEN ZeroWeightBanks ELSE Banks(m_num_banks)

LocalityBonus == (50 * LocalityWeightTenths) \div 10

BankScore(b) ==
  100 * m_static_weight_count[b] + 10 * m_dynamic_alloc_count[b]
    - (IF 20 <= m_bank_activity[b] /\ m_bank_activity[b] <= 80
         THEN LocalityBonus ELSE 0)

(* C26: every SmartLocality allocation returns the lowest-indexed bank    *)
(* that minimises 100 * static_weight_count + 10 * dynamic_alloc_count    *)
(* - (50 * locality_weight if 20 <= activity <= 80, else 0) over the       *)
(* banks without weights if there is one, and over all banks otherwise.    *)
C26_LowestBestScore ==
  [][AllocStep(SmartLocality)
       => /\ hist'.bank \in ScoredBanks
          /\ \A c \in ScoredBanks :
               \/ BankScore(hist'.bank) < BankScore(c)
               \/ BankScore(hist'.bank) = BankScore(c) /\ hist'.bank <= c]_vars

(* The bonus has decided an allocation: the bank returned held more       *)
(* tokens than another bank without weights, and was of moderate activity.*)
C26_Witness ==
  /\ impl = SmartLocality
  /\ hist.op = "alloc"
  /\ m_static_weight_count[hist.bank] = 0
  /\ m_bank_activity[hist.bank] >= 20 /\ m_bank_activity[hist.bank] <= 80
  /\ \E c \in Banks(m_num_banks) :
       /\ c < hist.bank
       /\ m_static_weight_count[c] = 0
       /\ m_dynamic_alloc_count[c] < m_dynamic_alloc_count[hist.bank] - 1

(* ceil(size / 8192) *)
CeilRows(size) == IF size % RowBytes = 0 THEN size \div RowBytes ELSE size \div RowBytes + 1

ReadRows == CeilRows(m_kv_cache_block_size)
WriteRows == CeilRows(m_kv_cache_head_dim * m_kv_cache_hidden_dim * 2 * FloatBytes)

(* The reads and writes the generator made at step t, in their order.     *)
KvEvents(t) ==
  SelectSeq(gen_log, LAMBDA e : e.step = t /\ e.ev \in {"read", "write"})

(* e addresses row `row`, column 0 of the bank allocated to `token`.      *)
OnRowOf(e, token, row) ==
  LET base == bank_id_to_addr_vec(m_organization, m_num_banks, get_kv_cache_bank(token))
  IN  /\ e.token = token
      /\ Len(e.addr_vec) = Len(Levels)
      /\ \A j \in 1 .. AddrSlots : e.addr_vec[j] = base[j]
      /\ e.addr_vec[m_levels("row") + 1] = row
      /\ e.addr_vec[m_levels("column") + 1] = 0

StepDone(t) ==
  /\ t < synth_token
  /\ \A k \in 0 .. t : get_kv_cache_bank(k) \in Banks(m_num_banks)

(* C27: at step t, with the tokens 0 .. t-1 on valid banks, the generator *)
(* emits t * ceil(block_size / 8192) reads, then ceil(kv_data_size / 8192) *)
(* writes, kv_data_size = head_dim * hidden_dim * 2 * 4; the reads of a    *)
(* token and the writes take the rows 0, 1, ... in order, column 0, on the *)
(* bank of the token.  With the defaults that is t reads and 512 writes.   *)
C27_ReadAndWriteCounts ==
  (m_enable_kv_cache /\ phase \in {"phase3", "stream"})
    => /\ \A t \in 0 .. MaxTokens :
            StepDone(t)
              => LET ev == KvEvents(t)
                 IN  /\ Len(ev) = t * ReadRows + WriteRows
                     /\ \A i \in 1 .. t * ReadRows :
                          /\ ev[i].ev = "read"
                          /\ OnRowOf(ev[i], (i - 1) \div ReadRows, (i - 1) % ReadRows)
                     /\ \A i \in 1 .. WriteRows :
                          /\ ev[t * ReadRows + i].ev = "write"
                          /\ OnRowOf(ev[t * ReadRows + i], t, i - 1)
       /\ (m_kv_cache_block_size = DefaultBlockSize) => ReadRows = 1
       /\ (m_kv_cache_head_dim = DefaultHeadDim /\ m_kv_cache_hidden_dim = DefaultHiddenDim)
            => WriteRows = 512

(* Step 2 of a run with two rows a block and two rows a token is done:    *)
(* four reads and two writes.                                              *)
C27_Witness ==
  /\ m_enable_kv_cache
  /\ phase = "stream"
  /\ ReadRows = 2 /\ WriteRows = 2
  /\ StepDone(2)
  /\ Len(KvEvents(2)) = 6

(* Properties of the conflict tracker *)

SetOf(usage, b) == IF b \in DOMAIN usage THEN usage[b] ELSE {}

(* What C28 says of a call register(bank, addr, cycle) on a class with    *)
(* the usage map `own`, the other class's map `other`, its counter `mine` *)
(* and the other counter `theirs`, each given before and after the call.   *)
RegisterEffect(c, own, own2, other, other2, mine, mine2, theirs, theirs2, type) ==
  LET hit == SetOf(other, c.bank_id) # {}
  IN  /\ SetOf(own2, c.bank_id) = SetOf(own, c.bank_id) \cup {c.addr}
      /\ \A b \in 0 .. MaxTrackerBanks : b # c.bank_id => SetOf(own2, b) = SetOf(own, b)
      /\ \A b \in 0 .. MaxTrackerBanks : SetOf(other2, b) = SetOf(other, b)
      /\ theirs2 = theirs
      /\ mine2 = mine + (IF hit THEN 1 ELSE 0)
      /\ m_tracker_total_conflicts' = m_tracker_total_conflicts + (IF hit THEN 1 ELSE 0)
      /\ m_conflict_history' =
           IF hit
             THEN m_conflict_history
                    \o <<[bank_id |-> c.bank_id, cycle |-> c.cycle, conflict_type |-> type]>>
             ELSE m_conflict_history

RegisterStep ==
  LET c == tracker_call'
  IN  /\ (c.op = "register_weight_operation" /\ c.bank_id \in Banks(m_tracker_num_banks))
           => RegisterEffect(c, m_weight_bank_usage, m_weight_bank_usage',
                             m_kv_cache_bank_usage, m_kv_cache_bank_usage',
                             m_weight_kv_conflicts, m_weight_kv_conflicts',
                             m_kv_weight_conflicts, m_kv_weight_conflicts', "weight_kv")
      /\ (c.op = "register_kv_cache_operation" /\ c.bank_id \in Banks(m_tracker_num_banks))
           => RegisterEffect(c, m_kv_cache_bank_usage, m_kv_cache_bank_usage',
                             m_weight_bank_usage, m_weight_bank_usage',
                             m_kv_weight_conflicts, m_kv_weight_conflicts',
                             m_weight_kv_conflicts, m_weight_kv_conflicts', "kv_weight")

(* C28: for a bank in [0, N), register_weight_operation(bank, addr,       *)
(* cycle) adds addr to the weight usage set of the bank and, exactly when *)
(* the KV usage set of that bank is non-empty at the call, adds one to     *)
(* total_conflicts and weight_kv_conflicts and appends {bank, cycle,       *)
(* "weight_kv"} to the history; register_kv_cache_operation does the same  *)
(* with the classes exchanged, kv_weight_conflicts and "kv_weight".  No    *)
(* set of another bank and no other counter changes.                       *)
C28_RegisterCountsConflict == [][RegisterStep]_vars

(* A KV operation has just been counted against the weights of its bank,  *)
(* while the other bank holds weights only.                                *)
C28_Witness ==
  /\ tracker_call.op = "register_kv_cache_operation"
  /\ tracker_call.cycle = MaxCycle
  /\ m_conflict_history = <<ConflictEvent(tracker_call.bank_id, MaxCycle, "kv_weight")>>
  /\ m_kv_weight_conflicts = 1 /\ m_weight_kv_conflicts = 0
  /\ m_tracker_total_conflicts = 1
  /\ \E b \in Banks(m_tracker_num_banks) :
       /\ b # tracker_call.bank_id
       /\ SetOf(m_weight_bank_usage, b) = TrackerAddrs
       /\ SetOf(m_kv_cache_bank_usage, b) = {}

(* What C29 says of one call.                                              *)
StickyStep ==
  LET c == tracker_call'
      kept == /\ m_weight_bank_usage' = m_weight_bank_usage
              /\ m_kv_cache_bank_usage' = m_kv_cache_bank_usage
  IN  /\ c.op # "construct"
           => \A b \in 0 .. MaxTrackerBanks :
                /\ SetOf(m_weight_bank_usage, b) \subseteq SetOf(m_weight_bank_usage', b)
                /\ SetOf(m_kv_cache_bank_usage, b) \subseteq SetOf(m_kv_cache_bank_usage', b)
      /\ c.op \in {"complete_weight_operation", "complete_kv_cache_operation"}
           => /\ kept
              /\ UNCHANGED <<m_tracker_total_conflicts, m_weight_kv_conflicts,
                             m_kv_weight_conflicts, m_conflict_history>>
      /\ c.op = "reset_stats"
           => /\ kept
              /\ UNCHANGED <<m_active_weight_requests, m_active_kv_requests>>
              /\ m_tracker_total_conflicts' = 0
              /\ m_weight_kv_conflicts' = 0
              /\ m_kv_weight_conflicts' = 0
              /\ m_conflict_history' = <<>>
      /\ (c.op = "register_weight_operation" /\ c.bank_id \in Banks(m_tracker_num_banks)
            /\ SetOf(m_kv_cache_bank_usage, c.bank_id) # {})
           => m_tracker_total_conflicts' = m_tracker_total_conflicts + 1
      /\ (c.op = "register_kv_cache_operation" /\ c.bank_id \in Banks(m_tracker_num_banks)
            /\ SetOf(m_weight_bank_usage, c.bank_id) # {})
           => m_tracker_total_conflicts' = m_tracker_total_conflicts + 1

(* C29: occupancy is sticky.  No completion and no reset_stats removes an *)
(* address from a usage set, so that once a bank has seen a KV operation   *)
(* every later register_weight_operation on it counts a conflict (and the  *)
(* same with the classes exchanged), also after every operation completed  *)
(* and after a reset; reset_stats sets the three counters to 0, empties    *)
(* the history and changes nothing else.                                   *)
C29_OccupancyIsSticky == [][StickyStep]_vars

(* A weight operation has just been counted on a bank whose KV requests   *)
(* all completed, after a reset: the other bank holds both classes, whose  *)
(* conflict is no longer in the history.                                   *)
C29_Witness ==
  /\ tracker_call.op = "register_weight_operation"
  /\ tracker_call.bank_id \in Banks(m_tracker_num_banks)
  /\ m_conflict_history = <<ConflictEvent(tracker_call.bank_id, tracker_call.cycle, "weight_kv")>>
  /\ m_tracker_total_conflicts = 1
  /\ tracker_call.bank_id \in DOMAIN m_active_kv_requests
  /\ m_active_kv_requests[tracker_call.bank_id] = <<>>
  /\ \E b \in Banks(m_tracker_num_banks) :
       /\ b # tracker_call.bank_id
       /\ SetOf(m_weight_bank_usage, b) # {}
       /\ SetOf(m_kv_cache_bank_usage, b) # {}

---------------------------------------------------------------------------
(* PHASE 1 of expand_trace by sizes: the loop reads of a kernel only the  *)
(* number of operations codegen_kernel appended for it.  An entry of      *)
(* scan_trace says whether the operation of old_trace is a kernel and how *)
(* many operations its expansion has.                                      *)

MaxScan == 3

ScanEntry(kernel, generated) == [kernel |-> kernel, generated |-> generated]

HalfLimit == SafetyLimit \div 2

ScanEntries ==
  {ScanEntry(FALSE, 0)}
    \cup {ScanEntry(TRUE, n) :
            n \in {0, 1, HalfLimit, HalfLimit + 1, SafetyLimit, SafetyLimit + 1}}

RECURSIVE ScansOfLength(_)
ScansOfLength(n) ==
  IF n = 0 THEN {<<>>}
  ELSE {Append(t, e) : t \in ScansOfLength(n - 1), e \in ScanEntries}

ScanTraces == UNION {ScansOfLength(n) : n \in 0 .. MaxScan}

scanRest == <<policyVars, frontVars, loaded_trace, trackerVars, loadVars,
             weightVars>>

(* expand_trace up to the loop: an empty buffer, total_instructions = 0 *)
StartScan(t) ==
  /\ scan_state = "idle"
  /\ scan_trace' = t
  /\ scan_state' = "scanning"
  /\ UNCHANGED <<scan_pos, total_instructions, buffer_size>>

(* One turn of for (const auto& t : old_trace): the whole expansion of a  *)
(* kernel is appended, then the total is compared with the limit.          *)
ScanNext ==
  /\ scan_state = "scanning"
  /\ scan_pos < Len(scan_trace)
  /\ scan_pos' = scan_pos + 1
  /\ LET t == scan_trace[scan_pos + 1]
     IN  IF t.kernel
           THEN LET size_before == buffer_size
                    generated == (size_before + t.generated) - size_before
                IN  /\ buffer_size' = size_before + t.generated
                    /\ total_instructions' = total_instructions + generated
                    /\ scan_state' = IF total_instructions' > SafetyLimit
                                       THEN "stopped" ELSE "scanning"
           ELSE UNCHANGED <<buffer_size, total_instructions, scan_state>>
  /\ UNCHANGED scan_trace

(* The loop has visited every operation of old_trace. *)
EndScan ==
  /\ scan_state = "scanning"
  /\ scan_pos = Len(scan_trace)
  /\ scan_state' = "done"
  /\ UNCHANGED <<scan_trace, scan_pos, total_instructions, buffer_size>>

NextScan ==
  \/ \E t \in ScanTraces : StartScan(t) /\ UNCHANGED scanRest
  \/ ScanNext /\ UNCHANGED scanRest
  \/ EndScan /\ UNCHANGED scanRest

SpecScan == Init /\ [][NextScan]_vars

(* C30: after the pre-scan the flat kernel buffer holds no more than the  *)
(* safety limit of 5,000,000 operations: a kernel whose expansion would    *)
(* exceed the limit leaves the buffer cut to the limit, and no kernel      *)
(* after it is expanded.                                                    *)
C30_BufferWithinLimit ==
  /\ scan_state \in {"stopped", "done"} => buffer_size <= SafetyLimit
  /\ scan_state = "stopped" => buffer_size = SafetyLimit

(* What C31 says of one call of set_static_weight_mapping.                *)
MapUpdateFrame ==
  hist'.op = "set_map"
    => /\ UNCHANGED <<m_token_to_bank, m_dynamic_alloc_count, m_total_allocations,
                      m_total_conflicts, m_next_bank, m_next_kv_bank,
                      last_allocated_bank, m_kv_cache_banks_start,
                      m_kv_cache_banks_count, m_num_banks, impl>>

(* C31: set_static_weight_mapping changes only the stored map and what is *)
(* derived from it (the per-bank static weight counts, the activity       *)
(* scores): the token table, the per-bank dynamic counts,                  *)
(* total_allocations, total_conflicts, the round-robin cursors and the     *)
(* reserved range of BankPartitioning stay as they are, and conflicts      *)
(* already counted are not evaluated again against the new map.            *)
C31_MapUpdateFrame == [][MapUpdateFrame]_vars

(* A map without weights has just replaced the one under which a conflict *)
(* was counted: the conflict is still in the statistics.                   *)
C31_Witness ==
  /\ hist.op = "set_map"
  /\ impl = ContentionAware
  /\ m_total_conflicts >= 1
  /\ m_token_to_bank # EmptyTable
  /\ \A b \in Banks(m_num_banks) : ~has_bank_conflict(b)
  /\ \E b \in Banks(m_num_banks) : m_dynamic_alloc_count[b] > 0

(* The bank returned by the call has a non-empty signature set in the map *)
(* the policy holds, and is a bank of the policy.                          *)
ChosenHoldsWeights ==
  /\ hist'.bank \in Banks(m_num_banks)
  /\ hist'.bank \in DOMAIN m_static_weight_mapping
  /\ m_static_weight_mapping[hist'.bank] > 0

ConflictCounted == m_total_conflicts' = m_total_conflicts + 1

ConflictStep ==
  hist'.op = "alloc"
    => /\ ConflictCounted <=> ChosenHoldsWeights
       /\ ~ConflictCounted => m_total_conflicts' = m_total_conflicts
       /\ \A b \in 0 .. MaxBanks : has_bank_conflict(b)' = has_bank_conflict(b)

(* C32 as stated: for every policy, allocate_kv_cache_bank increments     *)
(* total_conflicts exactly when the bank it chose has a non-empty         *)
(* signature set in the map current at the call; an entry with an empty   *)
(* set, or a bank outside [0, N), never counts.  has_bank_conflict is a   *)
(* function of the state: its value for every bank is the same before and *)
(* after an allocation.                                                    *)
C32_ConflictIffWeights == [][ConflictStep]_vars

(* C32, amended: the same for every policy constructed with at least one  *)
(* bank (num_banks >= 1).                                                  *)
C32_ConflictIffWeightsWithBanks == [][m_num_banks >= 1 => ConflictStep]_vars

(* An allocation on a bank whose entry is an empty set has not been       *)
(* counted, after one on a bank with weights that was.                     *)
C32_Witness ==
  /\ hist.op = "alloc"
  /\ m_num_banks >= 2
  /\ hist.bank \in DOMAIN m_static_weight_mapping
  /\ m_static_weight_mapping[hist.bank] = 0
  /\ m_total_conflicts = 1
  /\ m_total_allocations = 2
  /\ \E b \in Banks(m_num_banks) : MapHasWeights(m_static_weight_mapping, b)

AllAccepted == m_curr_trace_idx = m_trace_length /\ sent = m_trace

(* a step taken with the cursor at the end of the trace sends nothing *)
QuietAtEnd ==
  (phase = "stream" /\ m_curr_trace_idx >= m_trace_length)
    => sent' = sent /\ m_curr_trace_idx' = m_curr_trace_idx

(* C33: under a back-end that accepts a re-offered operation after        *)
(* finitely many refusals, with tick called again and again, every        *)
(* operation of the synthesized trace is accepted in the end and the      *)
(* cursor reaches the length of the trace; a tick after that sends        *)
(* nothing; and is_finished becomes true once the back-end has finished.  *)
C33_StreamCompletes ==
  /\ (phase = "stream") ~> (phase = "stream" /\ AllAccepted)
  /\ [][QuietAtEnd]_vars
  /\ (phase = "stream") ~> (phase = "stream" /\ is_finished)
  /\ [](phase = "stream" /\ AllAccepted /\ finished => is_finished)

(* A trace of three operations or more has been accepted whole, and the   *)
(* frontend is finished.                                                    *)
C33_Witness ==
  /\ phase = "stream"
  /\ m_trace_length >= 3
  /\ AllAccepted
  /\ is_finished

----------------------------------------------------------------------------
(* StaticWeightLoader: the definition the frontend includes               *)
(* (pim_codegen/static_weight_loader.h, load_from_trace, which its         *)
(* extract_weight_banks forwards to) and the second definition of the      *)
(* class (extract_weight_banks with a try block), run line by line.        *)

MaxWeightLines == 2
WeightBanks == 2

(* a comma-separated field: a number, or text std::stoull / std::stoi reject *)
Num(v) == [num |-> TRUE, val |-> v]
NoNum == [num |-> FALSE, val |-> 0]

WeightOps == {"W", "R", "C", "Problem", "end", "#", ""}

WeightFields ==
  { <<>>, <<Num(0)>>, <<Num(0), NoNum>>, <<Num(0), Num(1), Num(0), Num(0), NoNum>> }
    \cup { <<Num(c), Num(b)>> : c \in 0 .. 1, b \in 0 .. WeightBanks }

WeightLines ==
  { [op |-> o, fields |-> f] : o \in WeightOps \ {""}, f \in WeightFields }
    \cup { [op |-> "", fields |-> <<>>] }

WeightFilesOfLength(n) == [1 .. n -> WeightLines]

WeightFiles == UNION { WeightFilesOfLength(n) : n \in 0 .. MaxWeightLines }

Loaders == {"load_from_trace", "extract_weight_banks"}

(* the map each definition starts from: an empty set for every bank, or   *)
(* no entry at all                                                         *)
EmptyResult(which, n) ==
  IF which = "load_from_trace" THEN [b \in 0 .. n - 1 |-> {}] ELSE <<>>

Inserted(result, b, sig) ==
  IF b \in DOMAIN result
    THEN [result EXCEPT ![b] = @ \cup {sig}]
    ELSE result @@ (b :> {sig})

(* weight_addr = (weight_addr << 16) | (addr_vec[i] & 0xFFFF) over the    *)
(* first four fields: its four 16-bit digits, the unused leading ones 0    *)
WeightAddr(fields) ==
  LET k == IF Len(fields) < 4 THEN Len(fields) ELSE 4
  IN  [i \in 1 .. 4 |-> IF i <= 4 - k THEN 0 ELSE fields[i - (4 - k)].val % 65536]

(* raw_addr = tokens[4] when there are more than four fields, else 0 *)
RawAddr(fields) == IF Len(fields) > 4 THEN fields[5].val ELSE 0

OpenWeights(which, f, openable) ==
  /\ weight_state = "idle"
  /\ weight_loader' = which
  /\ weight_lines' = f
  /\ weight_banks' = WeightBanks
  /\ weight_pos' = 0
  /\ weight_result' = EmptyResult(which, WeightBanks)
  /\ weight_state' = IF openable THEN "reading" ELSE "returned"

(* one turn of the loop of load_from_trace *)
load_from_trace ==
  /\ weight_loader = "load_from_trace"
  /\ weight_state = "reading"
  /\ weight_pos < Len(weight_lines)
  /\ LET line == weight_lines[weight_pos + 1]
         skipped == line.op \in {"", "#", "conv2d", "gemm", "end"}
         throws == ~skipped /\ \E i \in DOMAIN line.fields : ~line.fields[i].num
         global_bank_id ==
           IF Len(line.fields) >= 2
             THEN line.fields[1].val * weight_banks + line.fields[2].val
             ELSE NoBank
         tracked == /\ ~skipped /\ ~throws
                    /\ Len(line.fields) >= 2
                    /\ line.op \in {"W", "compute", "C"}
                    /\ global_bank_id >= 0 /\ global_bank_id < weight_banks
     IN  /\ weight_state' = IF throws THEN "thrown" ELSE "reading"
         /\ weight_result' =
              IF tracked
                THEN Inserted(weight_result, global_bank_id, WeightAddr(line.fields))
                ELSE weight_result
  /\ weight_pos' = weight_pos + 1
  /\ UNCHANGED <<weight_lines, weight_loader, weight_banks>>

(* one turn of the loop of the second extract_weight_banks *)
extract_weight_banks ==
  /\ weight_loader = "extract_weight_banks"
  /\ weight_state = "reading"
  /\ weight_pos < Len(weight_lines)
  /\ LET line == weight_lines[weight_pos + 1]
         parsed == /\ line.op \in {"W", "R"}
                   /\ Len(line.fields) >= 2
                   /\ line.fields[2].num
                   /\ (Len(line.fields) > 4 => line.fields[5].num)
         bank_id == IF parsed THEN line.fields[2].val ELSE NoBank
     IN  weight_result' =
           IF parsed /\ bank_id >= 0 /\ bank_id < weight_banks
             THEN Inserted(weight_result, bank_id, RawAddr(line.fields))
             ELSE weight_result
  /\ weight_pos' = weight_pos + 1
  /\ UNCHANGED <<weight_lines, weight_loader, weight_banks, weight_state>>

(* trace_file.close(); return *)
ReturnWeights ==
  /\ weight_state = "reading"
  /\ weight_pos = Len(weight_lines)
  /\ weight_state' = "returned"
  /\ UNCHANGED <<weight_lines, weight_pos, weight_loader, weight_banks,
                 weight_result>>

weightRest == <<policyVars, frontVars, loaded_trace, trackerVars, loadVars,
                scanVars>>

NextWeights ==
  \/ \E which \in Loaders, f \in WeightFiles, openable \in BOOLEAN :
       OpenWeights(which, f, openable) /\ UNCHANGED weightRest
  \/ load_from_trace /\ UNCHANGED weightRest
  \/ extract_weight_banks /\ UNCHANGED weightRest
  \/ ReturnWeights /\ UNCHANGED weightRest

SpecWeights == Init /\ [][NextWeights]_vars

HasWeights(b) == b \in DOMAIN weight_result /\ weight_result[b] # {}

WellFormed(line) == \A i \in DOMAIN line.fields : line.fields[i].num

(* a line of opcode R or W whose bank field, the second, is b *)
NamesBank(line, b) ==
  /\ line.op \in {"R", "W"}
  /\ Len(line.fields) >= 2
  /\ line.fields[2].num /\ line.fields[2].val = b

(* C34: the map the static weight loader returns gives a bank b a         *)
(* non-empty signature set exactly when b is in [0, N) and some line of    *)
(* opcode R or W names b in its bank field: a well-formed such line is     *)
(* enough, and nothing but such a line does it; malformed lines and lines  *)
(* of other opcodes do not abort loading; a file that cannot be opened     *)
(* gives no bank a non-empty set.                                          *)
C34_LoaderReadsAndWrites ==
  /\ weight_state # "thrown"
  /\ weight_state = "returned" =>
       \A b \in 0 .. WeightBanks :
         /\ (/\ b < weight_banks
             /\ weight_pos = Len(weight_lines)
             /\ \E i \in DOMAIN weight_lines :
                  NamesBank(weight_lines[i], b) /\ WellFormed(weight_lines[i]))
              => HasWeights(b)
         /\ HasWeights(b) =>
              /\ b < weight_banks
              /\ \E i \in DOMAIN weight_lines : NamesBank(weight_lines[i], b)

TrackerOps == {"register_weight_operation", "register_kv_cache_operation",
               "complete_weight_operation", "complete_kv_cache_operation"}

(* the call names a bank outside [0, N) of the tracker *)
OutOfRange(call) ==
  /\ call.op \in TrackerOps
  /\ (call.bank_id < 0 \/ call.bank_id >= m_tracker_num_banks)

OutOfRangeStep ==
  OutOfRange(tracker_call')
    => UNCHANGED <<m_tracker_num_banks, m_weight_bank_usage, m_kv_cache_bank_usage,
                   m_active_weight_requests, m_active_kv_requests,
                   m_tracker_total_conflicts, m_weight_kv_conflicts,
                   m_kv_weight_conflicts, m_conflict_history>>

OutsideBanks(n) == {-1, n, n + 1}

KvOps(events) == {i \in DOMAIN events : events[i].ev \in {"read", "write"}}

(* C35: a bank index outside [0, N) changes no state: a register_* or     *)
(* complete_* call of the tracker with such a bank leaves the usage sets,  *)
(* the active requests, the counters and the history as they were;         *)
(* has_potential_conflict is false for it; bank_id_to_addr_vec is empty    *)
(* for it under every organization, and the generator writes nothing to it.*)
C35_OutOfRangeBankChangesNothing ==
  /\ [][OutOfRangeStep]_vars
  /\ [](\A b \in TrackerBankIds :
          (b < 0 \/ b >= m_tracker_num_banks) => ~has_potential_conflict(b))
  /\ [](\A org \in Organizations : \A b \in OutsideBanks(TotalBanks(org)) :
          bank_id_to_addr_vec(org, TotalBanks(org), b) = <<>>)
  /\ [](\A b \in OutsideBanks(m_num_banks) :
          KvOps(generate_kv_cache_write(0, b)) = {})

(* A call with bank N arrives at a tracker whose bank 0 is in use by both *)
(* classes.                                                                *)
C35_Witness ==
  /\ OutOfRange(tracker_call)
  /\ tracker_call.bank_id = m_tracker_num_banks
  /\ InUse(m_weight_bank_usage, 0)
  /\ InUse(m_kv_cache_bank_usage, 0)

----------------------------------------------------------------------------
(* The earlier variant of the class with the KV cache enabled, on a trace *)
(* file without kernel lines: its connect_memory_system sets up the policy *)
(* and the tracker, its expand_trace finds no kernel (kernel_idx stays -1) *)
(* and copies the loaded operations, and its tick registers an operation   *)
(* with the tracker before it offers it to the memory system.              *)

MaxPlain == 2
MaxRegistered == 3

PlainOps == {Op(o, At(s)) : o \in {"read", "write", "compute"}, s \in Spots}

PlainTracesOfLength(n) == [1 .. n -> PlainOps]

PlainPrograms ==
  {[trace |-> t, kernels |-> <<>>] :
     t \in UNION {PlainTracesOfLength(n) : n \in 0 .. MaxPlain}}

PlainConfigs ==
  {[enable |-> TRUE, num_tokens |-> 1, slice |-> 0, program |-> p] :
     p \in PlainPrograms}

TrackedConfigs ==
  {ConnectConfig(Naive, org, NoWeights, OneRowKv) : org \in Organizations}

EarlierConnectKv(c) ==
  /\ phase = "loaded"
  /\ m_enable_kv_cache
  /\ \A i \in DOMAIN m_trace : m_trace[i].op # "kernel"
  /\ m_organization' = c.org
  /\ FirstConstruction(RunConfig(c.impl, TotalBanks(c.org), c.file_map,
                                 DefaultBanksCount, DefaultBanksStart))
  /\ BankConflictTracker(TotalBanks(c.org))
  /\ loaded_trace' = m_trace
  /\ m_trace' = InlineKernels(m_trace, 1, <<>>)
  /\ m_trace_length' = Len(m_trace')
  /\ phase' = "earlier_kv_stream"
  /\ UNCHANGED <<m_enable_kv_cache, m_num_tokens, m_kernel_slice_ops_per_token,
                 m_kernels, static_weight_map, expanded_kernel_ops, synth_token,
                 m_curr_trace_idx, m_kv_cache_head_dim, m_kv_cache_hidden_dim,
                 m_kv_cache_block_size, gen_log, sent, pending>>

(* addr = (addr << 16) | (t.addr_vec[i] & 0xFFFF) over the first four fields *)
RECURSIVE TickAddrLoop(_, _, _)
TickAddrLoop(addr_vec, i, addr) ==
  IF i > Len(addr_vec) \/ i > 4 THEN addr
  ELSE TickAddrLoop(addr_vec, i + 1, addr * 65536 + (addr_vec[i] % 65536))

TickAddr(addr_vec) == TickAddrLoop(addr_vec, 1, 0)

(* the test of tick that leads to register_weight_operation *)
Registers(t, num_banks) ==
  /\ Len(t.addr_vec) >= 2
  /\ t.addr_vec[2] >= 0 /\ t.addr_vec[2] < num_banks
  /\ t.op \in {"write", "compute"}

EarlierTickTracked ==
  /\ phase = "earlier_kv_stream"
  /\ ~(m_trace_length >= 1 /\ m_curr_trace_idx > m_trace_length - 1)
  /\ m_curr_trace_idx < m_trace_length + MaxPending
  /\ \E accepted \in BOOLEAN :
       LET t == IF m_curr_trace_idx < Len(m_trace)
                  THEN m_trace[m_curr_trace_idx + 1]
                  ELSE Stray
           registers == Registers(t, TotalBanks(m_organization))
       IN  /\ accepted => pending < MaxPending
           /\ (~accepted /\ registers) =>
                Len(EntryOf(m_active_weight_requests, t.addr_vec[2], <<>>))
                  < MaxRegistered
           /\ IF registers
                THEN register_weight_operation(t.addr_vec[2], TickAddr(t.addr_vec),
                                               m_curr_trace_idx)
                ELSE UNCHANGED trackerVars
           /\ sent' = IF accepted THEN Append(sent, t) ELSE sent
           /\ pending' = IF accepted THEN pending + 1 ELSE pending
           /\ m_curr_trace_idx' =
                IF accepted THEN m_curr_trace_idx + 1 ELSE m_curr_trace_idx
  /\ UNCHANGED <<policyVars, phase, m_organization, m_enable_kv_cache,
                 m_num_tokens, m_kernel_slice_ops_per_token, m_kernels,
                 static_weight_map, expanded_kernel_ops, synth_token, m_trace,
                 m_trace_length, m_kv_cache_head_dim, m_kv_cache_hidden_dim,
                 m_kv_cache_block_size, gen_log>>

NextTracked ==
  \/ \E c \in PlainConfigs : Load(c) /\ UNCHANGED sideVars
  \/ \E c \in TrackedConfigs :
       EarlierConnectKv(c) /\ UNCHANGED <<loadVars, scanVars, weightVars>>
  \/ EarlierTickTracked /\ UNCHANGED <<loaded_trace, loadVars, scanVars, weightVars>>
  \/ Serve /\ UNCHANGED sideVars

SpecTracked == Init /\ [][NextTracked]_vars

(* the operations before the cursor that tick registers for bank b *)
AcceptedFor(b) ==
  {i \in 1 .. m_curr_trace_idx :
     /\ i <= Len(m_trace)
     /\ Registers(m_trace[i], TotalBanks(m_organization))
     /\ m_trace[i].addr_vec[2] = b}

(* the operation on offer is one tick registers for bank b *)
OnOffer(b) ==
  /\ m_curr_trace_idx < Len(m_trace)
  /\ Registers(m_trace[m_curr_trace_idx + 1], TotalBanks(m_organization))
  /\ m_trace[m_curr_trace_idx + 1].addr_vec[2] = b

(* C36: where tick calls the conflict tracker, an operation of the trace  *)
(* is registered with the tracker once, however many ticks the back-end    *)
(* refuses it: the tracker holds one registration for each registrable     *)
(* operation the cursor has passed, and at most one for the operation      *)
(* still on offer.                                                         *)
C36_RegisteredOnce ==
  phase = "earlier_kv_stream" =>
    \A b \in Banks(TotalBanks(m_organization)) :
      LET registered == Len(EntryOf(m_active_weight_requests, b, <<>>))
          passed == Cardinality(AcceptedFor(b))
      IN  \/ registered = passed
          \/ OnOffer(b) /\ registered = passed + 1

ZeroWeight == {b \in Banks(m_num_banks) : m_static_weight_count[b] = 0}

(* C37: a SmartLocality run on one static-weight map in which some bank   *)
(* has no weights, for any number of allocations: every token of the table *)
(* is on a bank without weights, total_conflicts is 0, and the             *)
(* dynamic_alloc_count of two banks without weights differ by 1 at most.   *)
C37_ZeroWeightBanksShareTheLoad ==
  (impl = SmartLocality /\ ZeroWeight # {}) =>
    /\ \A t \in DOMAIN m_token_to_bank : m_token_to_bank[t] \in ZeroWeight
    /\ hist.op = "alloc" => hist.bank \in ZeroWeight
    /\ m_total_conflicts = 0
    /\ \A a \in ZeroWeight, b \in ZeroWeight :
         m_dynamic_alloc_count[a] - m_dynamic_alloc_count[b] <= 1

(* More than N * max_kv_per_bank allocations have been made on three      *)
(* banks of which one holds weights.                                       *)
C37_Witness ==
  /\ impl = SmartLocality
  /\ m_num_banks = 3
  /\ Cardinality(ZeroWeight) = 2
  /\ m_total_allocations > m_num_banks * MaxKvPerBank
  /\ hist.op = "alloc"

(* the activity the current map gives bank b *)
MapActivity(b) ==
  LET mx == MaxWeightCount(m_num_banks, m_static_weight_mapping)
  IN  IF mx > 0 THEN (m_static_weight_count[b] * 100) \div mx ELSE 0

(* C38: after every init and every set_static_weight_mapping of           *)
(* SmartLocality the activity of each bank is the one its current map      *)
(* gives: static_weight_count * 100 / max_weight_count when some bank has  *)
(* weights, and 0 for every bank when the map has none, also when that map *)
(* replaces one with weights.                                              *)
C38_ActivityFollowsMap ==
  (impl = SmartLocality /\ hist.op \in {"init", "set_map"}) =>
    \A b \in Banks(m_num_banks) : m_bank_activity[b] = MapActivity(b)

----------------------------------------------------------------------------
(* The tracker of one bank with a longer history: any order of its calls, *)
(* with cycles that tell the events of the history apart.                  *)

MaxOrderHistory == 3
MaxOrderActive == 2
MaxOrderCycle == 2

OrderBanks == 1
OrderBankIds == 0 .. OrderBanks
OrderCycles == 0 .. MaxOrderCycle

OrderRoomFor(active, bank_id) ==
  /\ Len(m_conflict_history) < MaxOrderHistory
  /\ BankInRange(bank_id) => Len(EntryOf(active, bank_id, <<>>)) < MaxOrderActive

NextHistory ==
  \/ ~TrackerAlive /\ BankConflictTracker(OrderBanks) /\ UNCHANGED restVars
  \/ \E b \in OrderBankIds, c \in OrderCycles :
       /\ TrackerAlive /\ OrderRoomFor(m_active_weight_requests, b)
       /\ register_weight_operation(b, 0, c) /\ UNCHANGED restVars
  \/ \E b \in OrderBankIds, c \in OrderCycles :
       /\ TrackerAlive /\ OrderRoomFor(m_active_kv_requests, b)
       /\ register_kv_cache_operation(b, 0, c) /\ UNCHANGED restVars
  \/ \E b \in OrderBankIds :
       TrackerAlive /\ complete_weight_operation(b, 0) /\ UNCHANGED restVars
  \/ \E b \in OrderBankIds :
       TrackerAlive /\ complete_kv_cache_operation(b, 0) /\ UNCHANGED restVars
  \/ TrackerAlive /\ TrackerResetStats /\ UNCHANGED restVars

SpecHistory == Init /\ [][NextHistory]_vars

(* the registration just made met the other class on its bank *)
Conflicting(call, other_usage) ==
  /\ call.bank_id >= 0 /\ call.bank_id < m_tracker_num_banks
  /\ InUse(other_usage, call.bank_id)

(* what a step does to the history: a conflicting registration puts its   *)
(* event at the end, reset_stats empties it, nothing else touches it       *)
HistoryStep ==
  LET call == tracker_call'
  IN  CASE call.op = "register_weight_operation"
             /\ Conflicting(call, m_kv_cache_bank_usage)
             /\ <<m_weight_bank_usage, m_active_weight_requests>>'
                  # <<m_weight_bank_usage, m_active_weight_requests>> ->
             m_conflict_history' =
               Append(m_conflict_history,
                      ConflictEvent(call.bank_id, call.cycle, "weight_kv"))
        [] call.op = "register_kv_cache_operation"
             /\ Conflicting(call, m_weight_bank_usage)
             /\ <<m_kv_cache_bank_usage, m_active_kv_requests>>'
                  # <<m_kv_cache_bank_usage, m_active_kv_requests>> ->
             m_conflict_history' =
               Append(m_conflict_history,
                      ConflictEvent(call.bank_id, call.cycle, "kv_weight"))
        [] call.op = "reset_stats" -> m_conflict_history' = <<>>
        [] OTHER -> m_conflict_history' = m_conflict_history

(* C39: in every state of the tracker, whatever the order of register_*,  *)
(* complete_* and reset_stats: total_conflicts = weight_kv_conflicts +     *)
(* kv_weight_conflicts = the length of the history, and the history holds  *)
(* the events in the order of the registrations that met a conflict.       *)
C39_CountersMatchHistory ==
  /\ [](/\ m_tracker_total_conflicts = m_weight_kv_conflicts + m_kv_weight_conflicts
        /\ m_tracker_total_conflicts = Len(m_conflict_history)
        /\ m_weight_kv_conflicts
             = Len(SelectSeq(m_conflict_history,
                             LAMBDA e : e.conflict_type = "weight_kv")))
  /\ [][HistoryStep]_vars

(* a history of three events of both kinds whose cycles do not ascend *)
C39_Witness ==
  /\ Len(m_conflict_history) = 3
  /\ m_conflict_history[1].cycle > m_conflict_history[2].cycle
  /\ m_conflict_history[1].conflict_type # m_conflict_history[3].conflict_type
  /\ m_tracker_total_conflicts = 3

=============================================================================
